---- MODULE Spec2Model ----
(***************************************************************************)
(* Model of the polygon geometry engine of migoox/polygon_editor           *)
(* (src/src/polygon.rs, src/src/my_math.rs, src/src/style.rs).             *)
(*                                                                         *)
(* Coordinates are f32 in the program.  The model computes with exact      *)
(* rationals <<numerator, denominator>> (denominator > 0, lowest terms),   *)
(* i.e. it models the real-number meaning of the float expressions and     *)
(* abstracts from rounding.                                                *)
(***************************************************************************)
EXTENDS Integers, Sequences, FiniteSets, TLC

\* --------------------------------------------------------------------------
\* Bounds of the model (not program constants)
\* --------------------------------------------------------------------------
\* number of handler calls explored from an initial polygon
MaxSteps == 3

\* events handed to the state machine in one run of the editor
MaxEvents == 5
\* largest offset distance the options panel is given (the slider goes to MAX_OFFSET)
MaxOffsetSize == 4
\* fuel of the inner intersection-to-intersection chain of update_offset
MaxChain == 6

\* --------------------------------------------------------------------------
\* Program constants
\* --------------------------------------------------------------------------
\* style::POINT_DETECTION_RADIUS
POINT_DETECTION_RADIUS == 10
\* PolygonObject::from: offset_size: 50.0
DefaultOffsetSize == 50

\* --------------------------------------------------------------------------
\* Exact rational arithmetic standing for f32
\* --------------------------------------------------------------------------
Abs(n) == IF n < 0 THEN -n ELSE n

RECURSIVE GCD(_, _)
GCD(a, b) == IF b = 0 THEN a ELSE GCD(b, a % b)

\* n/d in lowest terms with positive denominator (d # 0)
Rat(n, d) ==
    LET g == GCD(Abs(n), Abs(d))
        s == IF d < 0 THEN -1 ELSE 1
    IN  <<(s * n) \div g, (s * d) \div g>>

RInt(n) == <<n, 1>>
RAdd(a, b) == Rat(a[1] * b[2] + b[1] * a[2], a[2] * b[2])
RSub(a, b) == Rat(a[1] * b[2] - b[1] * a[2], a[2] * b[2])
RMul(a, b) == Rat(a[1] * b[1], a[2] * b[2])
RDiv(a, b) == Rat(a[1] * b[2], a[2] * b[1])
RNeg(a) == <<-a[1], a[2]>>
RLt(a, b) == a[1] * b[2] < b[1] * a[2]
RLe(a, b) == a[1] * b[2] <= b[1] * a[2]
RAbs(a) == <<Abs(a[1]), a[2]>>
RSign(a) == IF a[1] < 0 THEN -1 ELSE IF a[1] = 0 THEN 0 ELSE 1
RMin(a, b) == IF RLt(b, a) THEN b ELSE a
RMax(a, b) == IF RLt(a, b) THEN b ELSE a

\* sf::Vector2f
Vec(x, y) == [x |-> x, y |-> y]
V(ix, iy) == Vec(RInt(ix), RInt(iy))
VAdd(a, b) == Vec(RAdd(a.x, b.x), RAdd(a.y, b.y))
VSub(a, b) == Vec(RSub(a.x, b.x), RSub(a.y, b.y))
VScale(a, k) == Vec(RMul(a.x, k), RMul(a.y, k))

\* --------------------------------------------------------------------------
\* my_math.rs
\* --------------------------------------------------------------------------
distance2(point1, point2) ==
    LET dx == RSub(point1.x, point2.x)
        dy == RSub(point1.y, point2.y)
    IN  RAdd(RMul(dx, dx), RMul(dy, dy))

dot_prod(vec1, vec2) == RAdd(RMul(vec1.x, vec2.x), RMul(vec1.y, vec2.y))

cross2(vec1, vec2) == RSub(RMul(vec1.x, vec2.y), RMul(vec1.y, vec2.x))

is_right_turn(p0, p1, p2) ==
    LET v0 == VSub(p1, p0)
        v1 == VSub(p2, p1)
    IN  RLt(cross2(v0, v1), RInt(0))

\* --------------------------------------------------------------------------
\* geo::algorithm::line_intersection::line_intersection on Line<f32>
\* (external crate; modelled from its algorithm: bounding boxes, four
\* orientation tests, then collinear / endpoint / proper cases)
\* --------------------------------------------------------------------------
\* orient2d: sign of (b - a) x (c - a)
Orient(a, b, c) == RSign(cross2(VSub(b, a), VSub(c, a)))

\* Rect::intersects(Coord) for the bounding rectangle of segment <<a, b>>
BoundsHasPoint(a, b, p) ==
    /\ RLe(RMin(a.x, b.x), p.x) /\ RLe(p.x, RMax(a.x, b.x))
    /\ RLe(RMin(a.y, b.y), p.y) /\ RLe(p.y, RMax(a.y, b.y))

\* Rect::intersects(Rect) for the bounding rectangles of two segments
BoundsIntersect(p1, p2, q1, q2) ==
    /\ RLe(RMin(p1.x, p2.x), RMax(q1.x, q2.x))
    /\ RLe(RMin(q1.x, q2.x), RMax(p1.x, p2.x))
    /\ RLe(RMin(p1.y, p2.y), RMax(q1.y, q2.y))
    /\ RLe(RMin(q1.y, q2.y), RMax(p1.y, p2.y))

NoIntersection == [kind |-> "None"]
SinglePoint(pt, proper) == [kind |-> "SinglePoint", intersection |-> pt, is_proper |-> proper]
Collinear == [kind |-> "Collinear"]

collinear_intersection(p1, p2, q1, q2) ==
    LET a == BoundsHasPoint(p1, p2, q1)
        b == BoundsHasPoint(p1, p2, q2)
        c == BoundsHasPoint(q1, q2, p1)
        d == BoundsHasPoint(q1, q2, p2)
    IN  IF a /\ b THEN Collinear
        ELSE IF c /\ d THEN Collinear
        ELSE IF a /\ c THEN (IF ~b /\ ~d /\ q1 = p1 THEN SinglePoint(q1, FALSE) ELSE Collinear)
        ELSE IF a /\ d THEN (IF ~b /\ ~c /\ q1 = p2 THEN SinglePoint(q1, FALSE) ELSE Collinear)
        ELSE IF b /\ c THEN (IF ~a /\ ~d /\ q2 = p1 THEN SinglePoint(q2, FALSE) ELSE Collinear)
        ELSE IF b /\ d THEN (IF ~a /\ ~c /\ q2 = p2 THEN SinglePoint(q2, FALSE) ELSE Collinear)
        ELSE NoIntersection

\* the crossing point of two segments that cross properly
proper_intersection(p1, p2, q1, q2) ==
    LET r == VSub(p2, p1)
        s == VSub(q2, q1)
        t == RDiv(cross2(VSub(q1, p1), s), cross2(r, s))
    IN  VAdd(p1, VScale(r, t))

line_intersection(p1, p2, q1, q2) ==
    IF ~BoundsIntersect(p1, p2, q1, q2) THEN NoIntersection
    ELSE
      LET p_q1 == Orient(p1, p2, q1)
          p_q2 == Orient(p1, p2, q2)
      IN  IF p_q1 = p_q2 /\ p_q1 # 0 THEN NoIntersection
          ELSE
            LET q_p1 == Orient(q1, q2, p1)
                q_p2 == Orient(q1, q2, p2)
            IN  IF q_p1 = q_p2 /\ q_p1 # 0 THEN NoIntersection
                ELSE IF p_q1 = 0 /\ p_q2 = 0 /\ q_p1 = 0 /\ q_p2 = 0
                  THEN collinear_intersection(p1, p2, q1, q2)
                ELSE IF p_q1 = 0 \/ p_q2 = 0 \/ q_p1 = 0 \/ q_p2 = 0
                  THEN SinglePoint(
                         IF p1 = q1 \/ p1 = q2 THEN p1
                         ELSE IF p2 = q1 \/ p2 = q2 THEN p2
                         ELSE IF p_q1 = 0 THEN q1
                         ELSE IF p_q2 = 0 THEN q2
                         ELSE IF q_p1 = 0 THEN p1
                         ELSE p2,
                         FALSE)
                ELSE SinglePoint(proper_intersection(p1, p2, q1, q2), TRUE)

\* --------------------------------------------------------------------------
\* Square roots of rationals.  RSqrt is exact on squares of rationals, the only
\* arguments the offset specification gives it (see RationalNormals).
\* --------------------------------------------------------------------------
RECURSIVE SqrtFrom(_, _)
\* Newton's iteration for the integer square root, started above the root
SqrtFrom(n, k) ==
    LET m == (k + n \div k) \div 2
    IN  IF m >= k THEN k ELSE SqrtFrom(n, m)
ISqrt(n) == IF n < 2 THEN n ELSE SqrtFrom(n, n)
IsSquare(n) == n >= 0 /\ ISqrt(n) * ISqrt(n) = n
RSqrt(a) == Rat(ISqrt(a[1]), ISqrt(a[2]))

vec_len2(vec) == RAdd(RMul(vec.x, vec.x), RMul(vec.y, vec.y))
vec_len(vec) == RSqrt(vec_len2(vec))
vec_norm(vec) == LET l == vec_len(vec) IN Vec(RDiv(vec.x, l), RDiv(vec.y, l))

\* --------------------------------------------------------------------------
\* Point and Polygon (src/src/polygon.rs).  A polygon is the Vec<Point> of the
\* program as a sequence; ids are 0-based as in the program, so the point
\* with id k is points[k + 1].
\* --------------------------------------------------------------------------
EdgeConstraint == {"None", "Horizontal", "Vertical"}

\* my_math::vec_norm on any vector with rational components.  The unit vector
\* vec / |vec| is written as the primitive integer vector of the same direction
\* (no square root is taken); the zero vector gives 0/0 in both components.
UnitDirection(vec) ==
    LET p == vec.x[1] * vec.y[2]
        q == vec.y[1] * vec.x[2]
        g == GCD(Abs(p), Abs(q))
    IN  IF g = 0 THEN Vec(<<0, 0>>, <<0, 0>>) ELSE V(p \div g, q \div g)

\* vec_norm(a + b) / sqrt((1 + a.b) / 2) as a value determined by the two unit
\* normals a and b, whichever is which
Miter(a, b) == [miter_of |-> {a, b}]

\* vec_norm(a + b), negated when the turn is not a right turn
Bisector(a, b, right) == [bisector_of |-> {a, b}, negated |-> ~right]

\* Point::new: the four derived fields start as zero vectors
Point_new(pos) ==
    [pos |-> pos, is_selected |-> FALSE, edge_constraint |-> "None",
     direction |-> V(0, 0), normal |-> V(0, 0), prev_normal |-> V(0, 0),
     offset_vec |-> V(0, 0)]

\* the unit normals of the edge into the point and of the edge out of it
PerpIn(point, prev) ==
    UnitDirection(Vec(RNeg(RSub(point.pos.y, prev.y)), RSub(point.pos.x, prev.x)))
PerpOut(point, next) ==
    UnitDirection(Vec(RNeg(RSub(next.y, point.pos.y)), RSub(next.x, point.pos.x)))

\* Point::update_normals
Point_update_normals(point, prev, next) ==
    [point EXCEPT
        !.normal = PerpOut(point, next),
        !.prev_normal = PerpIn(point, prev),
        !.offset_vec = Miter(PerpIn(point, prev), PerpOut(point, next)),
        !.direction = Bisector(PerpIn(point, prev), PerpOut(point, next),
                               RLt(cross2(VSub(point.pos, prev), VSub(next, point.pos)),
                                   RInt(0)))]

points_count(points) == Len(points)

\* a faulty index: an id outside 0..n-1 is moved to the nearest valid index
fix_index_clamped(points, id) ==
    IF id < 0 THEN 0
    ELSE IF id >= points_count(points) THEN points_count(points) - 1 ELSE id

\* isize::rem_euclid
fix_index(points, id) == id % points_count(points)

get_point_pos(points, id) == points[fix_index(points, id) + 1].pos

\* a faulty refresh: the loop starts at the second point
update_normals_from_second(points) ==
    [k \in 1..Len(points) |->
        IF k = 1 THEN points[k]
        ELSE Point_update_normals(points[k], get_point_pos(points, k - 2),
                                  get_point_pos(points, k))]

\* Polygon::update_normals: every point, from the positions of its cyclic
\* neighbours (the loop writes no position, so its passes are independent)
update_normals(points) ==
    [k \in 1..Len(points) |->
        Point_update_normals(points[k], get_point_pos(points, k - 2),
                             get_point_pos(points, k))]

\* a faulty accessor: the tag of the following edge
get_edge_constraint_of_next(points, id) == points[fix_index(points, id + 1) + 1].edge_constraint

get_edge_constraint(points, id) == points[fix_index(points, id) + 1].edge_constraint

set_edge_contsraint(points, id, constraint) ==
    [points EXCEPT ![fix_index(points, id) + 1].edge_constraint = constraint]

is_point_selected(points, id) == points[fix_index(points, id) + 1].is_selected

Polygon_select_point(points, id) ==
    [points EXCEPT ![fix_index(points, id) + 1].is_selected = TRUE]

Polygon_deselect_point(points, id) ==
    [points EXCEPT ![fix_index(points, id) + 1].is_selected = FALSE]

\* Vec::insert at fix_index(id)
insert_point_with_pos(points, id, point_pos) ==
    LET k == fix_index(points, id)
    IN  update_normals(SubSeq(points, 1, k) \o <<Point_new(point_pos)>>
                       \o SubSeq(points, k + 1, Len(points)))

\* a faulty removal: the vertex after the one asked for leaves the vector
remove_point_after(points, id) ==
    update_normals(SubSeq(points, 1, fix_index(points, id + 1))
                   \o SubSeq(points, fix_index(points, id + 1) + 2, Len(points)))

\* Vec::remove at fix_index(id)
Polygon_remove_point(points, id) ==
    LET k == fix_index(points, id)
    IN  update_normals(SubSeq(points, 1, k) \o SubSeq(points, k + 2, Len(points)))

\* update_vertex: the position is written, then update_normals runs
update_point_pos(points, point_pos, index) ==
    update_normals([points EXCEPT ![fix_index(points, index) + 1].pos = point_pos])

\* Point::new(Vector2f::new(coord.x, coord.y)) for every coordinate pair
set_points_from_raw(coords) ==
    update_normals([k \in 1..Len(coords) |-> Point_new([x |-> coords[k].x, y |-> coords[k].y])])

\* a faulty export: the two coordinates of every pair are swapped
get_raw_transposed(points) ==
    [k \in 1..Len(points) |-> [x |-> points[k].pos.y, y |-> points[k].pos.x]]

\* RawCoord { x: p.pos.x, y: p.pos.y } for every point
get_raw(points) ==
    [k \in 1..Len(points) |-> [x |-> points[k].pos.x, y |-> points[k].pos.y]]

Polygon_create(positions) ==
    update_normals([k \in 1..Len(positions) |-> Point_new(positions[k])])

is_proper(points) == ~(Len(points) < 3)

\* Point::update_normals with its square roots taken: the unit normals of the
\* incoming and outgoing edge of point i as rationals, for polygons with
\* RationalNormals (the value get_offset_vec returns is the one update_normals
\* stored at the last change of the polygon)
prev_normal(points, i) ==
    LET v01 == VSub(get_point_pos(points, i), get_point_pos(points, i - 1))
    IN  vec_norm(Vec(RNeg(v01.y), v01.x))

normal(points, i) ==
    LET v12 == VSub(get_point_pos(points, i + 1), get_point_pos(points, i))
    IN  vec_norm(Vec(RNeg(v12.y), v12.x))

\* Point::update_normals: vec_norm(a + b) / sqrt((1 + a.b) / 2) with a, b the two
\* unit normals.  The two square roots of the program, |a + b| and
\* sqrt((1 + a.b)/2), are taken as one root of their product, which is the
\* square of the rational 1 + a.b.
get_offset_vec(points, i) ==
    LET a == prev_normal(points, i)
        b == normal(points, i)
        sum == VAdd(a, b)
        den == RSqrt(RMul(vec_len2(sum), RDiv(RAdd(RInt(1), dot_prod(a, b)), RInt(2))))
    IN  Vec(RDiv(sum.x, den), RDiv(sum.y, den))

\* every edge has a positive rational length and no vertex is a 180-degree spike,
\* so that every square root and division of update_normals is exact
RationalNormals(points) ==
    \A i \in 0..(Len(points) - 1) :
        LET v == VSub(get_point_pos(points, i + 1), get_point_pos(points, i))
            l2 == vec_len2(v)
        IN  /\ l2[1] > 0 /\ IsSquare(l2[1]) /\ IsSquare(l2[2])
            /\ VAdd(prev_normal(points, i + 1), normal(points, i + 1)) # V(0, 0)

\* the candidate partner edges j of edge i in the double loop of
\* is_self_crossing / get_self_crossing_edges
PairRange(points, i) ==
    (i + 2)..((IF i = 0 THEN points_count(points) - 1 ELSE points_count(points)) - 1)

EdgeIntersection(points, i, j) ==
    line_intersection(get_point_pos(points, i), get_point_pos(points, i + 1),
                      get_point_pos(points, j), get_point_pos(points, j + 1))

\* returns true on result.is_some(): any common point of two non-neighbour edges
is_self_crossing(points) ==
    \E i \in 0..(points_count(points) - 1) :
        \E j \in PairRange(points, i) :
            EdgeIntersection(points, i, j).kind # "None"

ProperCrossing(points, i, j) ==
    LET r == EdgeIntersection(points, i, j)
    IN  r.kind = "SinglePoint" /\ r.is_proper

\* the pair {e, k} as the double loop visits it (smaller id first), or not at all
Visited(points, e, k) ==
    LET i == IF e < k THEN e ELSE k
        j == IF e < k THEN k ELSE e
    IN  e # k /\ j \in PairRange(points, i)

RECURSIVE CrossingsOf(_, _, _)
\* the Vec pushed for edge e, in push order: partner ids ascending from k
CrossingsOf(points, e, k) ==
    IF k >= points_count(points) THEN <<>>
    ELSE LET i == IF e < k THEN e ELSE k
             j == IF e < k THEN k ELSE e
         IN  (IF Visited(points, e, k) /\ ProperCrossing(points, i, j)
                THEN <<[id |-> k, point |-> EdgeIntersection(points, i, j).intersection]>>
                ELSE <<>>)
             \o CrossingsOf(points, e, k + 1)

\* HashMap<usize, Vec<(usize, Vector2f)>>: a function on the edges that have an entry
get_self_crossing_edges(points) ==
    LET keys == {e \in 0..(points_count(points) - 1) : CrossingsOf(points, e, 0) # <<>>}
    IN  [e \in keys |-> CrossingsOf(points, e, 0)]

\* the shoelace sum of assert_ccw
RECURSIVE SumFrom(_, _)
SumFrom(points, i) ==
    IF i >= points_count(points) THEN RInt(0)
    ELSE RAdd(RMul(RSub(get_point_pos(points, i + 1).x, get_point_pos(points, i).x),
                   RAdd(get_point_pos(points, i + 1).y, get_point_pos(points, i).y)),
              SumFrom(points, i + 1))
ShoelaceSum(points) == SumFrom(points, 0)

Reverse(seq) == [k \in 1..Len(seq) |-> seq[Len(seq) + 1 - k]]

\* a faulty reversal: the vector is reversed and every tag stays with its point
ReverseKeepingTags(points) == Reverse(points)

\* a faulty test: a sum of exactly zero is not reversed
CcwReversesNegative(sum) == RLt(sum, RInt(0))

\* the reversal branch: points.reverse(), then every point takes the tag its
\* successor carries in the reversed vector
ReverseAndRemap(points) ==
    LET rev == Reverse(points)
    IN  update_normals(
            [k \in 1..Len(rev) |->
                [rev[k] EXCEPT !.edge_constraint = rev[fix_index(rev, k) + 1].edge_constraint]])

\* a faulty test: the orders of positive sum are the ones reversed
CcwReversesPositive(sum) == RLt(RInt(0), sum)

\* sum <= 0.
CcwReverses(sum) == RLe(sum, RInt(0))

\* Polygon::assert_ccw (is_proper() is asserted): the points after the call
\* and the returned flag
Polygon_assert_ccw(points) ==
    IF CcwReverses(ShoelaceSum(points))
      THEN [points |-> ReverseAndRemap(points), reversed |-> TRUE]
      ELSE [points |-> points, reversed |-> FALSE]

\* --------------------------------------------------------------------------
\* PolygonObject::update_offset
\* --------------------------------------------------------------------------
\* a faulty clone: every vertex moved against its offset_vec
naive_offset_subtracting(points, offset_size) ==
    update_normals(
        [k \in 1..Len(points) |->
            [points[k] EXCEPT !.pos =
                VSub(get_point_pos(points, k - 1),
                     VScale(get_offset_vec(points, k - 1), RInt(offset_size)))]])

\* the clone of the polygon with every vertex moved by offset_vec * offset_size
\* (update_point_pos on the clone, whose last update_normals sees every new position)
naive_offset_polygon(points, offset_size) ==
    update_normals(
        [k \in 1..Len(points) |->
            [points[k] EXCEPT !.pos =
                VAdd(get_point_pos(points, k - 1),
                     VScale(get_offset_vec(points, k - 1), RInt(offset_size)))]])

\* "for index in 0..n: if pos.x < pos_old.x { start = index }": the first
\* vertex of minimal x
MinXStart(points) ==
    CHOOSE s \in 0..(points_count(points) - 1) :
        \A k \in 0..(points_count(points) - 1) :
            \/ RLt(get_point_pos(points, s).x, get_point_pos(points, k).x)
            \/ (get_point_pos(points, s).x = get_point_pos(points, k).x /\ s <= k)

\* a faulty choice: the first eligible entry, whatever its distance
FirstEligible(list, from, eligible) ==
    IF eligible = {} THEN 0 ELSE CHOOSE m \in eligible : \A m2 \in eligible : m <= m2

\* the min_dist / min_id loops: among the eligible entries of list, the first
\* one of least squared distance from the point from (curr_dist < min_dist
\* keeps the earlier entry on a tie); 0 when none is eligible
FirstClosest(list, from, eligible) ==
    IF eligible = {} THEN 0
    ELSE CHOOSE m \in eligible :
            \A m2 \in eligible :
                \/ RLt(distance2(from, list[m].point), distance2(from, list[m2].point))
                \/ (distance2(from, list[m].point) = distance2(from, list[m2].point) /\ m <= m2)

\* the entries of list the inner loop does not skip: on a right turn from the
\* last two pushed points, and not on the line just left
Eligible(list, out, prev_line) ==
    {m \in 1..Len(list) :
        ~(\/ ~is_right_turn(out[Len(out)], out[Len(out) - 1], list[m].point)
          \/ prev_line = list[m].id)}

\* all that a pass of the inner while loop reads: the line it is on, the line
\* just left and the last two pushed points
ChainState(out, closest_intersection, prev_line) ==
    [id |-> closest_intersection.id, prev_line |-> prev_line,
     last |-> out[Len(out)], before |-> out[Len(out) - 1]]

RECURSIVE Chain(_, _, _, _, _, _)
RECURSIVE ChainTo(_, _, _, _, _, _, _)
\* the inner while loop: jumps from intersection to intersection while an
\* entry of the partner edge lies on a right turn and is not the edge just
\* left.  The loop has no bound of its own: loops is set when a pass starts
\* from what an earlier pass started from (seen), from where the loop repeats
\* for ever; cut is set when the chain is stopped by the fuel of the model.
Chain(crossings, out, closest_intersection, prev_line, fuel, seen) ==
    IF closest_intersection.id \notin DOMAIN crossings
      THEN [out |-> out, closest |-> closest_intersection, cut |-> FALSE, loops |-> FALSE]
    ELSE IF ChainState(out, closest_intersection, prev_line) \in seen
      THEN [out |-> out, closest |-> closest_intersection, cut |-> FALSE, loops |-> TRUE]
    ELSE ChainTo(crossings, crossings[closest_intersection.id], out, closest_intersection,
                 fuel,
                 FirstClosest(crossings[closest_intersection.id], out[Len(out)],
                              Eligible(crossings[closest_intersection.id], out, prev_line)),
                 seen \cup {ChainState(out, closest_intersection, prev_line)})

\* the rest of one pass of the inner loop, min_id found (0 for None)
ChainTo(crossings, list, out, closest_intersection, fuel, min_id, seen) ==
    IF min_id = 0
      THEN [out |-> out, closest |-> closest_intersection, cut |-> FALSE, loops |-> FALSE]
    ELSE IF fuel = 0
      THEN [out |-> out, closest |-> closest_intersection, cut |-> TRUE, loops |-> FALSE]
    ELSE Chain(crossings, Append(out, list[min_id].point), list[min_id],
               closest_intersection.id, fuel - 1, seen)

\* the choice of the vertex to resume from, after the inner loop
Resume(nv, ch) ==
    [out |-> ch.out,
     next |-> IF is_right_turn(ch.out[Len(ch.out)], ch.out[Len(ch.out) - 1], ch.closest.point)
                THEN ch.closest.id
                ELSE fix_index(nv, ch.closest.id + 1),
     cut |-> ch.cut, loops |-> ch.loops]

\* the closest intersection of the line is pushed and the inner loop runs
AcrossTo(nv, crossings, i, out, closest_intersection) ==
    Resume(nv, Chain(crossings, Append(out, closest_intersection.point),
                     closest_intersection, i, MaxChain, {}))

\* the branch of the outer loop body for a line with crossings
Across(nv, crossings, i, out) ==
    AcrossTo(nv, crossings, i, out,
             crossings[i][FirstClosest(crossings[i], out[Len(out)], 1..Len(crossings[i]))])

\* one pass of the outer loop body from vertex i: the points pushed and the
\* vertex to resume from
WalkStep(nv, crossings, i, out) ==
    IF i \in DOMAIN crossings
      THEN Across(nv, crossings, i, Append(out, get_point_pos(nv, i)))
      ELSE [out |-> Append(out, get_point_pos(nv, i)), next |-> fix_index(nv, i + 1),
            cut |-> FALSE, loops |-> FALSE]

\* iterations_inner > naive_offset_polygon.points_count()
SafetyBreak(iterations, n) == iterations > n

RECURSIVE Walk(_, _, _, _, _, _, _)
RECURSIVE WalkOn(_, _, _, _, _, _)
\* the outer loop; end says which break left it
Walk(nv, crossings, start, i, out, iterations, cut) ==
    WalkOn(nv, crossings, start, WalkStep(nv, crossings, i, out), iterations + 1, cut)

\* the two breaks that close a pass st of the outer loop; a pass whose inner
\* loop repeats for ever never reaches them
WalkOn(nv, crossings, start, st, iterations, cut) ==
    IF st.loops
      THEN [out |-> st.out, end |-> "loop", iterations |-> iterations, cut |-> cut]
    ELSE IF SafetyBreak(iterations, points_count(nv))
      THEN [out |-> st.out, end |-> "safety", iterations |-> iterations,
            cut |-> cut \/ st.cut]
    ELSE IF st.next = start
      THEN [out |-> st.out, end |-> "start", iterations |-> iterations,
            cut |-> cut \/ st.cut]
    ELSE Walk(nv, crossings, start, st.next, st.out, iterations, cut \/ st.cut)

\* the repair walk over the naive offset nv with its crossing map
OutsideWalk(nv, crossings, start) == Walk(nv, crossings, start, start, <<>>, 0, FALSE)

\* the end of update_offset: the start vertex is pushed again and the points
\* become the offset polygon
Closed(nv, start, walk) ==
    [offset_polygon |-> Polygon_create(Append(walk.out, get_point_pos(nv, start))),
     path |-> IF walk.end = "loop" THEN "loop" ELSE IF walk.cut THEN "cut" ELSE walk.end,
     cut |-> walk.cut]

\* the repair path of update_offset
Repaired(nv, crossings, start) == Closed(nv, start, OutsideWalk(nv, crossings, start))

\* a faulty store: the repair walk runs whatever the crossings and the flag
StoredOffsetAlwaysRepaired(nv, crossings, naive) == Repaired(nv, crossings, MinXStart(nv))

\* a faulty store: the naive flag is not looked at
StoredOffsetIgnoringFlag(nv, crossings, naive) ==
    IF DOMAIN crossings = {}
      THEN [offset_polygon |-> nv, path |-> "naive", cut |-> FALSE]
      ELSE Repaired(nv, crossings, MinXStart(nv))

\* "if crossings.is_empty() || self.naive_offset": the naive offset is stored
StoredOffset(nv, crossings, naive) ==
    IF DOMAIN crossings = {} \/ naive
      THEN [offset_polygon |-> nv, path |-> "naive", cut |-> FALSE]
      ELSE Repaired(nv, crossings, MinXStart(nv))

\* update_offset past its early return, nv the naive offset
OffsetOf(nv, naive) == StoredOffset(nv, get_self_crossing_edges(nv), naive)

\* a faulty update_offset: no early return
update_offset_unguarded(points, show_off, naive, offset_size, old_offset_polygon) ==
    OffsetOf(naive_offset_polygon(points, offset_size), naive)

\* PolygonObject::update_offset: the offset_polygon after the call, and the
\* path the call took: "skipped" (early return), "naive" (the naive offset is
\* stored), "start" / "safety" (repair walk, by the break that ended its loop),
\* "cut" (the model stopped the inner loop of the walk), "loop" (the inner loop
\* of the walk repeats for ever and the call does not return)
update_offset(points, show_off, naive, offset_size, old_offset_polygon) ==
    IF ~show_off \/ is_self_crossing(points)
      THEN [offset_polygon |-> old_offset_polygon, path |-> "skipped", cut |-> FALSE]
      ELSE OffsetOf(naive_offset_polygon(points, offset_size), naive)

\* --------------------------------------------------------------------------
\* PolygonObject: selection and editing
\* --------------------------------------------------------------------------
MinOf(ids) == CHOOSE i \in ids : \A j \in ids : i <= j

RECURSIVE DeselectEach(_, _)
\* the loop of deselect_all_points over the selection set
DeselectEach(points, ids) ==
    IF ids = {} THEN points
    ELSE DeselectEach(Polygon_deselect_point(points, MinOf(ids)), ids \ {MinOf(ids)})

RECURSIVE SelectFrom(_, _)
\* the loop of select_all_points
SelectFrom(points, id) ==
    IF id >= points_count(points) THEN points
    ELSE SelectFrom(Polygon_select_point(points, id), id + 1)

\* a faulty collection: the ids are taken as if the flags had stayed in place
\* while the vector was reversed
SelectedIdsMirrored(points) ==
    {points_count(points) - 1 - i : i \in
        {j \in 0..(points_count(points) - 1) : is_point_selected(points, j)}}

\* the ids collected by the loop of PolygonObject::assert_ccw
SelectedIds(points) ==
    {i \in 0..(points_count(points) - 1) : is_point_selected(points, i)}

RECURSIVE MoveEach(_, _, _)
\* first loop of move_selected_points: every selected id is moved by vec.  The
\* HashSet is iterated in an unspecified order; the moves commute, so the
\* model takes ascending order.
MoveEach(points, ids, vec) ==
    IF ids = {} THEN points
    ELSE LET id == MinOf(ids)
         IN  MoveEach(update_point_pos(points, VAdd(get_point_pos(points, id), vec), id),
                      ids \ {id}, vec)

\* a faulty second loop: no unselected neighbour is shifted
DragNoNeighbour(points, sel, id, vec) == points

\* one pass of the second loop of move_selected_points for the selected id
DragNeighbours(points, sel, id, vec) ==
    LET prev_id == fix_index(points, id - 1)
        prev_point == get_point_pos(points, prev_id)
        next_id == fix_index(points, id + 1)
        next_point == get_point_pos(points, next_id)
        pts1 == IF prev_id \notin sel
                  THEN IF get_edge_constraint(points, prev_id) = "Vertical"
                         THEN update_point_pos(points,
                                  Vec(RAdd(prev_point.x, vec.x), prev_point.y), prev_id)
                       ELSE IF get_edge_constraint(points, prev_id) = "Horizontal"
                         THEN update_point_pos(points,
                                  Vec(prev_point.x, RAdd(prev_point.y, vec.y)), prev_id)
                       ELSE points
                  ELSE points
    IN  IF next_id \notin sel
          THEN IF get_edge_constraint(pts1, id) = "Vertical"
                 THEN update_point_pos(pts1, Vec(RAdd(next_point.x, vec.x), next_point.y), next_id)
               ELSE IF get_edge_constraint(pts1, id) = "Horizontal"
                 THEN update_point_pos(pts1, Vec(next_point.x, RAdd(next_point.y, vec.y)), next_id)
               ELSE pts1
          ELSE pts1

RECURSIVE DragEach(_, _, _, _)
DragEach(points, sel, ids, vec) ==
    IF ids = {} THEN points
    ELSE DragEach(DragNeighbours(points, sel, MinOf(ids), vec), sel, ids \ {MinOf(ids)}, vec)

\* PolygonObject::move_selected_points, without its closing update_offset
MovedPoints(points, sel, vec) == DragEach(MoveEach(points, sel, vec), sel, sel, vec)

\* a faulty insertion: the tag of the split edge is kept
InsertedPointsKeepingTag(points, id, pos) == insert_point_with_pos(points, id, pos)

\* PolygonObject::insert_point, without its closing update_offset
InsertedPoints(points, id, pos) ==
    insert_point_with_pos(set_edge_contsraint(points, id - 1, "None"), id, pos)

\* a faulty guard: a triangle may lose a vertex
TooFewBelowThree(points) == points_count(points) < 3

\* self.polygon.points_count() <= 3
TooFewToRemove(points) == points_count(points) <= 3

\* a faulty removal: the tag of the edge before the vertex is kept
RemovedPointsKeepingTag(points, id) == Polygon_remove_point(points, id)

\* PolygonObject::remove_point after its guard, without its closing update_offset
RemovedPoints(points, id) ==
    Polygon_remove_point(set_edge_contsraint(points, id - 1, "None"), id)

\* self.selection.remove(&(id as usize)): a negative id wraps to a value above
\* every index, which the set never holds
SelectionAfterRemove(sel, id) == IF id >= 0 THEN sel \ {id} ELSE sel

\* --------------------------------------------------------------------------
\* PolygonObject::draw_line_constraints_egui
\* --------------------------------------------------------------------------
\* the entries the combo box shows for the edge id
OfferedTags(points, id) ==
    LET line_prev == fix_index(points, id - 1)
        line0 == fix_index(points, id)
        line1 == fix_index(points, id + 1)
        p0 == get_point_pos(points, line0)
        p1 == get_point_pos(points, line1)
    IN  {"None"}
        \cup (IF /\ RLt(RInt(POINT_DETECTION_RADIUS), RAbs(RSub(p1.x, p0.x)))
                 /\ get_edge_constraint(points, line_prev) # "Horizontal"
                 /\ get_edge_constraint(points, line1) # "Horizontal"
                THEN {"Horizontal"} ELSE {})
        \cup (IF /\ RLt(RInt(POINT_DETECTION_RADIUS), RAbs(RSub(p1.y, p0.y)))
                 /\ get_edge_constraint(points, line_prev) # "Vertical"
                 /\ get_edge_constraint(points, line1) # "Vertical"
                THEN {"Vertical"} ELSE {})

\* new != None && (new == constraint(line0 - 1) || new == constraint(line1))
ConstraintConflict(points, line0, line1, new) ==
    /\ new # "None"
    /\ \/ new = get_edge_constraint(points, line0 - 1)
       \/ new = get_edge_constraint(points, line1)

\* a faulty snap: both endpoints go to the y of the first endpoint
SnapHorizontalToFirst(points, p0, p1, line0, line1) ==
    update_point_pos(update_point_pos(points, Vec(p0.x, p0.y), line0),
                     Vec(p1.x, p0.y), line1)

\* the match on new: both endpoints go to the average of the constrained coordinate
SnapHorizontal(points, p0, p1, line0, line1) ==
    LET avg == RDiv(RAdd(p0.y, p1.y), RInt(2))
    IN  update_point_pos(update_point_pos(points, Vec(p0.x, avg), line0),
                         Vec(p1.x, avg), line1)

SnapVertical(points, p0, p1, line0, line1) ==
    LET avg == RDiv(RAdd(p0.x, p1.x), RInt(2))
    IN  update_point_pos(update_point_pos(points, Vec(avg, p0.y), line0),
                         Vec(avg, p1.y), line1)

\* a faulty rollback: the positions are restored, the tag is not
RollbackPositions(points, p0, p1, line0, line1, old) ==
    update_point_pos(update_point_pos(points, p0, line0), p1, line1)

\* the branch taken when the snapped polygon is_self_crossing
Rollback(points, p0, p1, line0, line1, old) ==
    set_edge_contsraint(
        update_point_pos(update_point_pos(points, p0, line0), p1, line1),
        line0, old)

\* the handler for the edge id when the user asks the combo box for the tag
\* want: new is want when the box shows it and stays old otherwise.  Gives the
\* points after the call, how the call ended, and whether update_offset follows.
draw_line_constraints_egui(points, id, want) ==
    LET line0 == fix_index(points, id)
        line1 == fix_index(points, id + 1)
        p0 == get_point_pos(points, line0)
        p1 == get_point_pos(points, line1)
        old == get_edge_constraint(points, line0)
        new == IF want \in OfferedTags(points, id) THEN want ELSE old
    IN  IF old = new
          THEN [points |-> points,
                outcome |-> IF want = old THEN "same" ELSE "not_offered"]
        ELSE IF ConstraintConflict(points, line0, line1, new)
          THEN [points |-> points, outcome |-> "conflict"]
        ELSE
          LET tagged == set_edge_contsraint(points, line0, new)
              snapped == IF new = "Horizontal" THEN SnapHorizontal(tagged, p0, p1, line0, line1)
                         ELSE IF new = "Vertical" THEN SnapVertical(tagged, p0, p1, line0, line1)
                         ELSE tagged
          IN  IF is_self_crossing(snapped)
                THEN [points |-> Rollback(snapped, p0, p1, line0, line1, old),
                      outcome |-> "rolled_back"]
                ELSE [points |-> snapped, outcome |-> "applied"]

\* --------------------------------------------------------------------------
\* PolygonObject as a value: the polygons of AppContext seen by the state
\* machine (src/src/state_machine.rs).  A PolygonObject is the record of its
\* points, selection, hover and insertion fields; its offset is not displayed
\* there (show_offset = false), so the update_offset that closes
\* move_selected_points and insert_point returns at once.
\* --------------------------------------------------------------------------
\* style::LINE_DETECTION_DISTANCE
LINE_DETECTION_DISTANCE == 10

PolygonObject_select_point(o, id) ==
    [o EXCEPT !.points = Polygon_select_point(o.points, id),
              !.selection = o.selection \cup {fix_index(o.points, id)}]

PolygonObject_deselect_point(o, id) ==
    [o EXCEPT !.points = Polygon_deselect_point(o.points, id),
              !.selection = o.selection \ {fix_index(o.points, id)}]

PolygonObject_deselect_all_points(o) ==
    [o EXCEPT !.points = DeselectEach(o.points, o.selection), !.selection = {}]

PolygonObject_select_all_points(o) ==
    [o EXCEPT !.points = SelectFrom(o.points, 0),
              !.selection = o.selection \cup (0..(points_count(o.points) - 1))]

is_line_selected(o, first_id) ==
    is_point_selected(o.points, first_id) /\ is_point_selected(o.points, first_id + 1)

selected_points_count(o) == Cardinality(o.selection)

PolygonObject_move_selected_points(o, vec) ==
    [o EXCEPT !.points = MovedPoints(o.points, o.selection, vec)]

PolygonObject_assert_ccw(o) ==
    [o EXCEPT !.points = Polygon_assert_ccw(o.points).points,
              !.selection = SelectedIds(Polygon_assert_ccw(o.points).points)]

PolygonObject_insert_point(o, id, pos) ==
    [o EXCEPT !.points = InsertedPoints(o.points, id, pos), !.can_insert = FALSE]

\* update_on_point_hover: the first point within POINT_DETECTION_RADIUS of pos
\* (distance <= r compared as distance2 <= r * r)
PointsNear(points, pos) ==
    {i \in 0..(points_count(points) - 1) :
        RLe(distance2(get_point_pos(points, i), pos),
            RInt(POINT_DETECTION_RADIUS * POINT_DETECTION_RADIUS))}

update_on_point_hover(o, pos) ==
    IF PointsNear(o.points, pos) = {}
      THEN [o EXCEPT !.is_point_hovered = FALSE]
      ELSE [o EXCEPT !.hovered_point_id = MinOf(PointsNear(o.points, pos)),
                     !.is_point_hovered = TRUE]

\* proj1 of the line tests: the projection of pos - p0 on the edge p0 -> p1
Proj1(p0, p1, pos) ==
    VScale(VSub(p1, p0),
           RDiv(dot_prod(VSub(p1, p0), VSub(pos, p0)), vec_len2(VSub(p1, p0))))

\* vec_len2 of proj1, which is dot_prod(v01, v0m)^2 / vec_len2(v01)
Proj1Len2(p0, p1, pos) ==
    RDiv(RMul(dot_prod(VSub(p1, p0), VSub(pos, p0)), dot_prod(VSub(p1, p0), VSub(pos, p0))),
         vec_len2(VSub(p1, p0)))

\* the three tests of update_on_line_hover and update_insertion for the edge
\* i: not behind p0, not beyond p1, and closer than LINE_DETECTION_DISTANCE
\* to the edge.  proj2 = v0m - proj1 is at a right angle to proj1, so its
\* squared length is vec_len2(v0m) - vec_len2(proj1).  On an edge of length
\* zero the program divides 0 by 0 and none of its comparisons with the
\* result holds the edge to be near.
LineNear(points, i, pos) ==
    /\ get_point_pos(points, i + 1) # get_point_pos(points, i)
    /\ ~RLt(dot_prod(VSub(get_point_pos(points, i + 1), get_point_pos(points, i)),
                     VSub(pos, get_point_pos(points, i))), RInt(0))
    /\ ~RLt(vec_len2(VSub(get_point_pos(points, i + 1), get_point_pos(points, i))),
            Proj1Len2(get_point_pos(points, i), get_point_pos(points, i + 1), pos))
    /\ RLt(RSub(vec_len2(VSub(pos, get_point_pos(points, i))),
                Proj1Len2(get_point_pos(points, i), get_point_pos(points, i + 1), pos)),
           RInt(LINE_DETECTION_DISTANCE * LINE_DETECTION_DISTANCE))

LinesNear(points, pos) ==
    {i \in 0..(points_count(points) - 1) : LineNear(points, i, pos)}

update_on_line_hover(o, pos) ==
    IF LinesNear(o.points, pos) = {}
      THEN [o EXCEPT !.is_line_hovered = FALSE]
      ELSE [o EXCEPT !.hovered_line_id = MinOf(LinesNear(o.points, pos)),
                     !.is_line_hovered = TRUE]

\* the rest of update_hover, o after update_on_point_hover
HoverAfterPoint(o, pos) ==
    IF o.is_point_hovered THEN [o EXCEPT !.is_line_hovered = FALSE]
    ELSE update_on_line_hover(o, pos)

\* update_hover: p is the object after update_on_point_hover
update_hover(o, mouse_pos) ==
    CHOOSE h \in {HoverAfterPoint(p, mouse_pos) : p \in {update_on_point_hover(o, mouse_pos)}} :
        TRUE

\* the edges update_insertion does not skip: neither endpoint within
\* POINT_DETECTION_RADIUS of pos, and the edge near pos
InsertableLines(points, pos) ==
    {i \in LinesNear(points, pos) : i \notin PointsNear(points, pos)
                                    /\ fix_index(points, i + 1) \notin PointsNear(points, pos)}

update_insertion(o, pos) ==
    IF InsertableLines(o.points, pos) = {}
      THEN [o EXCEPT !.can_insert = FALSE]
      ELSE [o EXCEPT
              !.insert_pos =
                  VAdd(get_point_pos(o.points, MinOf(InsertableLines(o.points, pos))),
                       Proj1(get_point_pos(o.points, MinOf(InsertableLines(o.points, pos))),
                             get_point_pos(o.points, MinOf(InsertableLines(o.points, pos)) + 1),
                             pos)),
              !.can_insert = TRUE]

get_hovered_line_ids(o) ==
    <<o.hovered_line_id, fix_index(o.points, o.hovered_line_id + 1)>>

\* PolygonObject::from: the hover and insertion fields of a new object
NoHover ==
    [is_point_hovered |-> FALSE, hovered_point_id |-> 0, is_line_hovered |-> FALSE,
     hovered_line_id |-> 0, can_insert |-> FALSE, insert_pos |-> V(0, 0)]

\* a PolygonObject from its points, its selection and its hover fields
Object(pts, sel, h) ==
    [points |-> pts, selection |-> sel,
     is_point_hovered |-> h.is_point_hovered, hovered_point_id |-> h.hovered_point_id,
     is_line_hovered |-> h.is_line_hovered, hovered_line_id |-> h.hovered_line_id,
     can_insert |-> h.can_insert, insert_pos |-> h.insert_pos]

HoverOf(o) ==
    [is_point_hovered |-> o.is_point_hovered, hovered_point_id |-> o.hovered_point_id,
     is_line_hovered |-> o.is_line_hovered, hovered_line_id |-> o.hovered_line_id,
     can_insert |-> o.can_insert, insert_pos |-> o.insert_pos]

\* --------------------------------------------------------------------------
\* The state machine (src/src/state_machine.rs).  A state is its name, with
\* the two mouse points DraggingState holds; a handler gives the next state
\* and the polygons after it.  select_point, is_point_selected and the other
\* calls the handlers test with is_ok() have no failing path in polygon.rs, so
\* every such test passes.  The show_hover flag, which only draws, is left out.
\* --------------------------------------------------------------------------
IdleState == [name |-> "Idle", prev_mouse_point |-> V(0, 0), start_mouse_point |-> V(0, 0)]

SelectionState ==
    [name |-> "Selection", prev_mouse_point |-> V(0, 0), start_mouse_point |-> V(0, 0)]

AddPointState ==
    [name |-> "AddPoint", prev_mouse_point |-> V(0, 0), start_mouse_point |-> V(0, 0)]

DraggingState_new(mouse_pos) ==
    [name |-> "Dragging", prev_mouse_point |-> mouse_pos, start_mouse_point |-> mouse_pos]

Handled(state, polys) == [state |-> state, polygons |-> polys]

Each_deselect_all_points(polys) ==
    [k \in 1..Len(polys) |-> PolygonObject_deselect_all_points(polys[k])]

\* both points of the hovered line are selected
SelectLine(o) ==
    PolygonObject_select_point(
        PolygonObject_select_point(o, get_hovered_line_ids(o)[1]),
        get_hovered_line_ids(o)[2])

DeselectLine(o) ==
    PolygonObject_deselect_point(
        PolygonObject_deselect_point(o, get_hovered_line_ids(o)[1]),
        get_hovered_line_ids(o)[2])

RECURSIVE select_points_and_return_state(_, _, _)
\* IdleState::select_points_and_return_state, the loop from polygon i on
select_points_and_return_state(polys, i, success_result) ==
    IF i > Len(polys) THEN Handled(IdleState, polys)
    ELSE IF polys[i].is_point_hovered
      THEN Handled(success_result,
                   [polys EXCEPT ![i] = PolygonObject_select_point(@, @.hovered_point_id)])
    ELSE IF polys[i].is_line_hovered
      THEN Handled(success_result, [polys EXCEPT ![i] = SelectLine(@)])
    ELSE select_points_and_return_state(polys, i + 1, success_result)

\* IdleState::on_ctrl_a_left_mouse_clicked
RECURSIVE Idle_on_ctrl_a_left_mouse_clicked(_, _)
Idle_on_ctrl_a_left_mouse_clicked(polys, i) ==
    IF i > Len(polys) THEN Handled(IdleState, polys)
    ELSE IF polys[i].is_line_hovered \/ polys[i].is_point_hovered
      THEN Handled(SelectionState,
                   [polys EXCEPT ![i] = PolygonObject_select_all_points(@)])
    ELSE Idle_on_ctrl_a_left_mouse_clicked(polys, i + 1)

\* SelectionState::on_left_mouse_clicked, the loop from polygon i on; every
\* hovered polygon returns, so the loop ends with nothing hovered
RECURSIVE Selection_on_left_mouse_clicked(_, _, _)
Selection_on_left_mouse_clicked(polys, i, mouse_pos) ==
    IF i > Len(polys) THEN Handled(IdleState, Each_deselect_all_points(polys))
    ELSE IF polys[i].is_point_hovered
      THEN IF ~is_point_selected(polys[i].points, polys[i].hovered_point_id)
             THEN Handled(DraggingState_new(mouse_pos),
                          [Each_deselect_all_points(polys) EXCEPT
                              ![i] = PolygonObject_select_point(@, @.hovered_point_id)])
             ELSE Handled(DraggingState_new(mouse_pos), polys)
    ELSE IF polys[i].is_line_hovered
      THEN IF ~is_line_selected(polys[i], get_hovered_line_ids(polys[i])[1])
             THEN Handled(DraggingState_new(mouse_pos),
                          [Each_deselect_all_points(polys) EXCEPT ![i] = SelectLine(@)])
             ELSE Handled(DraggingState_new(mouse_pos), polys)
    ELSE Selection_on_left_mouse_clicked(polys, i + 1, mouse_pos)

RECURSIVE Selection_on_ctrl_left_mouse_clicked(_, _, _)
\* after a deselection in polygon i: back to IdleState when that polygon has
\* no selected point left, else on to the next polygon
AfterDeselection(polys, i) ==
    IF selected_points_count(polys[i]) = 0 THEN Handled(IdleState, polys)
    ELSE Selection_on_ctrl_left_mouse_clicked(polys, i + 1, FALSE)

\* SelectionState::on_ctrl_left_mouse_clicked, the loop from polygon i on
Selection_on_ctrl_left_mouse_clicked(polys, i, nothing_hovered) ==
    IF i > Len(polys)
      THEN IF nothing_hovered THEN Handled(IdleState, Each_deselect_all_points(polys))
           ELSE Handled(SelectionState, polys)
    ELSE IF polys[i].is_point_hovered
      THEN IF is_point_selected(polys[i].points, polys[i].hovered_point_id)
             THEN AfterDeselection(
                      [polys EXCEPT ![i] = PolygonObject_deselect_point(@, @.hovered_point_id)],
                      i)
             ELSE Selection_on_ctrl_left_mouse_clicked(
                      [polys EXCEPT ![i] = PolygonObject_select_point(@, @.hovered_point_id)],
                      i + 1, FALSE)
    ELSE IF polys[i].is_line_hovered
      THEN IF is_line_selected(polys[i], get_hovered_line_ids(polys[i])[1])
             THEN AfterDeselection([polys EXCEPT ![i] = DeselectLine(@)], i)
             ELSE Selection_on_ctrl_left_mouse_clicked(
                      [polys EXCEPT ![i] = SelectLine(@)], i + 1, FALSE)
    ELSE Selection_on_ctrl_left_mouse_clicked(polys, i + 1, nothing_hovered)

\* SelectionState::on_ctrl_a_left_mouse_clicked
Selection_on_ctrl_a_left_mouse_clicked(polys) ==
    IF \A k \in 1..Len(polys) : ~(polys[k].is_line_hovered \/ polys[k].is_point_hovered)
      THEN Handled(SelectionState, Each_deselect_all_points(polys))
      ELSE Handled(SelectionState,
                   [k \in 1..Len(polys) |->
                       IF polys[k].is_line_hovered \/ polys[k].is_point_hovered
                         THEN PolygonObject_select_all_points(polys[k]) ELSE polys[k]])

\* DraggingState::on_left_mouse_released
Dragging_on_left_mouse_released(state, polys, mouse_pos) ==
    Handled(SelectionState,
            [k \in 1..Len(polys) |->
                IF is_self_crossing(polys[k].points)
                  THEN PolygonObject_move_selected_points(
                           polys[k], VSub(state.start_mouse_point, mouse_pos))
                  ELSE PolygonObject_assert_ccw(polys[k])])

\* DraggingState::update
Dragging_update(state, polys, mouse_pos) ==
    Handled([state EXCEPT !.prev_mouse_point = mouse_pos],
            [k \in 1..Len(polys) |->
                PolygonObject_move_selected_points(polys[k],
                                                   VSub(mouse_pos, state.prev_mouse_point))])

\* AddPointState::on_left_mouse_clicked, the loop from polygon i on
RECURSIVE AddPoint_on_left_mouse_clicked(_, _)
AddPoint_on_left_mouse_clicked(polys, i) ==
    IF i > Len(polys) THEN Handled(AddPointState, polys)
    ELSE IF polys[i].can_insert
      THEN Handled(IdleState,
                   [polys EXCEPT ![i] = PolygonObject_insert_point(
                                            @, get_hovered_line_ids(@)[2], @.insert_pos)])
    ELSE AddPoint_on_left_mouse_clicked(polys, i + 1)

\* AddPointState::update for one polygon: q is the object after update_insertion
AddPoint_update(o, mouse_pos) ==
    CHOOSE h \in {update_hover(q, mouse_pos) : q \in {update_insertion(o, mouse_pos)}} : TRUE

\* --------------------------------------------------------------------------
\* State: the PolygonObjects, the mode of the editor, and a record of the
\* last handler call.  The first PolygonObject is held field by field.
\* --------------------------------------------------------------------------
VARIABLES
    points,          \* PolygonObject.polygon.points
    selection,       \* PolygonObject.selection
    show_offset,     \* PolygonObject.show_offset
    naive_offset,    \* PolygonObject.naive_offset
    offset_size,     \* PolygonObject.offset_size
    offset_polygon,  \* PolygonObject.offset_polygon.points
    hover,           \* PolygonObject: the hover and insertion fields
    others,          \* AppContext.polygons after the first one
    curr_state,      \* the Box<dyn State> of the application
    drag_entry,      \* the polygons as they were when DraggingState was entered
    last,            \* the last call: operation, arguments, result, state before it
    steps            \* number of calls made

vars == <<points, selection, show_offset, naive_offset, offset_size, offset_polygon,
          hover, others, curr_state, drag_entry, last, steps>>

\* AppContext.polygons
Polygons == <<Object(points, selection, hover)>> \o others


Snapshot == [points |-> points, selection |-> selection, offset_polygon |-> offset_polygon,
             show_offset |-> show_offset, naive_offset |-> naive_offset,
             offset_size |-> offset_size, others |-> others, curr_state |-> curr_state]

Call(op, id, arg, ret, path) ==
    [op |-> op, id |-> id, arg |-> arg, ret |-> ret, path |-> path, pre |-> Snapshot]

Raw(seq) == [k \in 1..Len(seq) |-> V(seq[k][1], seq[k][2])]

\* coordinate lists loaded through PolygonObjectFactory::build_from_raw in the
\* editing specification
EditRaws ==
    { Raw(<<<<0, 0>>, <<12, 4>>, <<5, 24>>>>),
      Raw(<<<<0, 0>>, <<10, 4>>, <<5, 24>>>>),
      Raw(<<<<0, 0>>, <<12, 0>>, <<24, 0>>>>),
      Raw(<<<<0, 24>>, <<24, 0>>, <<24, 24>>, <<18, 8>>>>),
      Raw(<<<<0, 0>>, <<24, 0>>, <<24, 24>>, <<0, 24>>>>) }

\* coordinate lists of the offset specification: every edge has an integer
\* length (axis-parallel, or a multiple of the 5-12-13 triangle)
OffsetRaws ==
    { Raw(<<<<0, 0>>, <<10, 0>>, <<10, 10>>, <<0, 10>>>>),
      Raw(<<<<0, 0>>, <<36, 0>>, <<24, 5>>, <<12, 5>>>>),
      Raw(<<<<0, 0>>, <<12, 0>>, <<0, 5>>>>),
      Raw(<<<<0, 1>>, <<0, 6>>, <<6, 6>>, <<6, 0>>, <<4, 0>>, <<4, 4>>, <<2, 4>>, <<2, 1>>>>) }

\* PolygonObjectFactory::build_from_raw, then PolygonObject::from, for the
\* first polygon of an application that starts in IdleState with the polygons
\* rest after it
BuiltAmong(raw, rest) ==
    /\ points = set_points_from_raw(raw)
    /\ hover = NoHover
    /\ others = rest
    /\ curr_state = IdleState
    /\ drag_entry = <<>>
    /\ selection = {}
    /\ show_offset = FALSE
    /\ naive_offset = FALSE
    /\ offset_size = DefaultOffsetSize
    /\ offset_polygon = <<>>
    /\ last = [op |-> "build_from_raw", id |-> 0, arg |-> "none", ret |-> "none",
               path |-> "none",
               pre |-> [points |-> <<>>, selection |-> {}, offset_polygon |-> <<>>,
                        show_offset |-> FALSE, naive_offset |-> FALSE,
                        offset_size |-> DefaultOffsetSize, others |-> <<>>,
                        curr_state |-> IdleState]]
    /\ steps = 0

\* an application with one polygon
Built(raw) == BuiltAmong(raw, <<>>)

Init == \E raw \in EditRaws : Built(raw)

InitOffset == \E raw \in OffsetRaws : Built(raw)

\* signed ids handed to the cyclic accessors: one below 0 up to one past the count
Ids == -1..Len(points)

\* positions handed to insert_point
InsertPositions == {V(12, 12), V(30, 6)}

\* vectors handed to move_selected_points
MoveVecs == {V(12, 0), V(-6, 8)}

\* the closing self.update_offset() of a handler, and the record of the call
\* a call is made while fewer than MaxSteps were made and the last one returned
CanStep == steps < MaxSteps /\ last.path # "loop" /\ last.ret # "panic"

\* id.rem_euclid(0): fix_index panics on a polygon without points
fix_index_panics(pts) == points_count(pts) = 0

\* the call op panicked before it changed the polygon
Panicked(op, id, arg) ==
    /\ last' = Call(op, id, arg, "panic", "none")
    /\ UNCHANGED <<points, selection, offset_polygon>>

\* the end of a call that ran update_offset with result r; a call that does
\* not return never assigns offset_polygon
Updated(r, op, id, arg, ret) ==
    /\ offset_polygon' = IF r.path = "loop" THEN offset_polygon ELSE r.offset_polygon
    /\ last' = Call(op, id, arg, ret, r.path)

Offset(pts) == update_offset(pts, show_offset, naive_offset, offset_size, offset_polygon)

\* PolygonObject::select_point
SelectPoint(id) ==
    /\ CanStep
    /\ IF fix_index_panics(points)
         THEN Panicked("select_point", id, "none")
         ELSE /\ points' = Polygon_select_point(points, id)
              /\ selection' = selection \cup {fix_index(points, id)}
              /\ last' = Call("select_point", id, "none", "none", "none")
              /\ UNCHANGED offset_polygon
    /\ steps' = steps + 1
    /\ UNCHANGED <<hover, others, curr_state, drag_entry>>
    /\ UNCHANGED <<show_offset, naive_offset, offset_size>>

\* PolygonObject::deselect_point
DeselectPoint(id) ==
    /\ CanStep
    /\ IF fix_index_panics(points)
         THEN Panicked("deselect_point", id, "none")
         ELSE /\ points' = Polygon_deselect_point(points, id)
              /\ selection' = selection \ {fix_index(points, id)}
              /\ last' = Call("deselect_point", id, "none", "none", "none")
              /\ UNCHANGED offset_polygon
    /\ steps' = steps + 1
    /\ UNCHANGED <<hover, others, curr_state, drag_entry>>
    /\ UNCHANGED <<show_offset, naive_offset, offset_size>>

\* PolygonObject::select_all_points
SelectAllPoints ==
    /\ CanStep
    /\ points' = SelectFrom(points, 0)
    /\ selection' = selection \cup (0..(points_count(points) - 1))
    /\ last' = Call("select_all_points", 0, "none", "none", "none")
    /\ steps' = steps + 1
    /\ UNCHANGED <<hover, others, curr_state, drag_entry>>
    /\ UNCHANGED <<show_offset, naive_offset, offset_size, offset_polygon>>

\* PolygonObject::deselect_all_points
DeselectAllPoints ==
    /\ CanStep
    /\ points' = DeselectEach(points, selection)
    /\ selection' = {}
    /\ last' = Call("deselect_all_points", 0, "none", "none", "none")
    /\ steps' = steps + 1
    /\ UNCHANGED <<hover, others, curr_state, drag_entry>>
    /\ UNCHANGED <<show_offset, naive_offset, offset_size, offset_polygon>>

\* PolygonObject::insert_point
InsertPoint(id, pos) ==
    /\ CanStep
    /\ IF fix_index_panics(points)
         THEN Panicked("insert_point", id, pos) /\ UNCHANGED hover
         ELSE /\ points' = InsertedPoints(points, id, pos)
              /\ Updated(Offset(points'), "insert_point", id, pos, "none")
              /\ hover' = [hover EXCEPT !.can_insert = FALSE]
              /\ UNCHANGED selection
    /\ steps' = steps + 1
    /\ UNCHANGED <<others, curr_state, drag_entry>>
    /\ UNCHANGED <<show_offset, naive_offset, offset_size>>

\* a faulty remove_point: the id leaves the selection before the vertex count
\* is tested
RemovePointDeselecting(id) ==
    /\ CanStep
    /\ selection' = SelectionAfterRemove(selection, id)
    /\ IF TooFewToRemove(points)
         THEN /\ last' = Call("remove_point", id, "none", "Err", "none")
              /\ UNCHANGED <<points, offset_polygon>>
         ELSE /\ points' = RemovedPoints(points, id)
              /\ Updated(Offset(points'), "remove_point", id, "none", "Ok")
    /\ steps' = steps + 1
    /\ UNCHANGED <<hover, others, curr_state, drag_entry>>
    /\ UNCHANGED <<show_offset, naive_offset, offset_size>>

\* PolygonObject::remove_point
RemovePoint(id) ==
    /\ CanStep
    /\ IF TooFewToRemove(points)
         THEN /\ last' = Call("remove_point", id, "none", "Err", "none")
              /\ UNCHANGED <<points, selection, offset_polygon>>
         ELSE /\ points' = RemovedPoints(points, id)
              /\ selection' = SelectionAfterRemove(selection, id)
              /\ Updated(Offset(points'), "remove_point", id, "none", "Ok")
    /\ steps' = steps + 1
    /\ UNCHANGED <<hover, others, curr_state, drag_entry>>
    /\ UNCHANGED <<show_offset, naive_offset, offset_size>>

\* PolygonObject::move_selected_points
MoveSelectedPoints(vec) ==
    /\ CanStep
    /\ points' = MovedPoints(points, selection, vec)
    /\ Updated(Offset(points'), "move_selected_points", 0, vec, "none")
    /\ steps' = steps + 1
    /\ UNCHANGED <<hover, others, curr_state, drag_entry>>
    /\ UNCHANGED <<selection, show_offset, naive_offset, offset_size>>

\* the state after draw_line_constraints_egui: update_offset runs when the new
\* tag is kept
Constrained(r, id, want) ==
    /\ points' = r.points
    /\ IF r.outcome = "applied"
         THEN Updated(Offset(r.points), "set_constraint", id, want, r.outcome)
         ELSE /\ last' = Call("set_constraint", id, want, r.outcome, "none")
              /\ UNCHANGED offset_polygon

\* PolygonObject::draw_line_constraints_egui for the edge id, the user asking for want
SetConstraint(id, want) ==
    /\ CanStep
    /\ Constrained(draw_line_constraints_egui(points, id, want), id, want)
    /\ steps' = steps + 1
    /\ UNCHANGED <<hover, others, curr_state, drag_entry>>
    /\ UNCHANGED <<selection, show_offset, naive_offset, offset_size>>

\* PolygonObject::assert_ccw
AssertCcw ==
    /\ CanStep
    /\ IF ~is_proper(points)
         THEN Panicked("assert_ccw", 0, "none")
         ELSE LET r == Polygon_assert_ccw(points)
              IN  /\ points' = r.points
                  /\ selection' = SelectedIds(r.points)
                  /\ last' = Call("assert_ccw", 0, "none",
                                  IF r.reversed THEN "reversed" ELSE "kept", "none")
                  /\ UNCHANGED offset_polygon
    /\ steps' = steps + 1
    /\ UNCHANGED <<hover, others, curr_state, drag_entry>>
    /\ UNCHANGED <<show_offset, naive_offset, offset_size>>

\* MyApp::save followed by MyApp::load for the one polygon: the polygon is
\* exported with get_raw and a fresh PolygonObject is built from the result by
\* build_from_raw (set_points_from_raw on a new Polygon, PolygonObject::from)
SaveAndLoad ==
    /\ CanStep
    /\ points' = set_points_from_raw(get_raw(points))
    /\ selection' = {}
    /\ show_offset' = FALSE
    /\ naive_offset' = FALSE
    /\ offset_size' = DefaultOffsetSize
    /\ offset_polygon' = <<>>
    /\ last' = Call("save_and_load", 0, "none", "none", "none")
    /\ hover' = NoHover
    /\ steps' = steps + 1
    /\ UNCHANGED <<others, curr_state, drag_entry>>

\* PolygonObject::draw_polygon_options_egui with the values the three widgets hold
SetOptions(show, offset, naive) ==
    /\ CanStep
    /\ IF show # show_offset \/ offset # offset_size \/ naive # naive_offset
         THEN /\ offset_size' = offset
              /\ naive_offset' = naive
              /\ show_offset' = show
              /\ Updated(update_offset(points, show, naive, offset, offset_polygon),
                         "set_options", 0, "none", "changed")
         ELSE /\ last' = Call("set_options", 0, "none", "unchanged", "none")
              /\ UNCHANGED <<offset_size, naive_offset, show_offset, offset_polygon>>
    /\ steps' = steps + 1
    /\ UNCHANGED <<hover, others, curr_state, drag_entry>>
    /\ UNCHANGED <<points, selection>>

\* editing a polygon whose offset is not displayed
Next ==
    \/ \E id \in Ids : SelectPoint(id)
    \/ \E id \in Ids : DeselectPoint(id)
    \/ SelectAllPoints
    \/ DeselectAllPoints
    \/ \E id \in Ids : \E pos \in InsertPositions : InsertPoint(id, pos)
    \/ \E id \in Ids : RemovePoint(id)
    \/ \E vec \in MoveVecs : MoveSelectedPoints(vec)
    \/ \E id \in Ids : \E want \in EdgeConstraint : SetConstraint(id, want)
    \/ AssertCcw
    \/ SaveAndLoad

Spec == Init /\ [][Next]_vars

\* a polygon with rational edge lengths whose offset panel is in use
NextOffset ==
    \/ \E show \in BOOLEAN : \E offset \in 0..MaxOffsetSize :
          \E naive \in BOOLEAN : SetOptions(show, offset, naive)
    \/ AssertCcw

SpecOffset == InitOffset /\ [][NextOffset]_vars

\* coordinate lists of the removal specification: a 5-12-13 triangle, and the
\* rectangle that every removal turns into such a triangle
RemoveRaws ==
    { Raw(<<<<0, 0>>, <<12, 0>>, <<0, 5>>>>),
      Raw(<<<<0, 0>>, <<12, 0>>, <<12, 5>>, <<0, 5>>>>) }

InitRemove == \E raw \in RemoveRaws : Built(raw)

\* the removals the removal specification draws: the ones that are refused, and
\* the ones that leave a polygon whose normals stay rational
RationalRemoval(id) ==
    TooFewToRemove(points) \/ RationalNormals(RemovedPoints(points, id))

\* removing vertices of a polygon with a selection and a displayed offset
NextRemove ==
    \/ \E show \in BOOLEAN : \E offset \in 0..MaxOffsetSize :
          \E naive \in BOOLEAN : SetOptions(show, offset, naive)
    \/ \E id \in Ids : SelectPoint(id)
    \/ \E id \in Ids : RationalRemoval(id) /\ RemovePoint(id)

SpecRemove == InitRemove /\ [][NextRemove]_vars

\* coordinate list of the crossing specification: a pentagon with edges of
\* integer length that is left self-crossing when its vertex (-24,-27) is removed
CrossRaws ==
    { Raw(<<<<0, 0>>, <<12, 5>>, <<12, 0>>, <<-24, -27>>, <<0, 5>>>>) }

InitCross == \E raw \in CrossRaws : Built(raw)

\* the offset panel and removals on a polygon that a removal makes self-crossing
SpecCross == InitCross /\ [][NextRemove]_vars

\* polygons whose naive offset sends the repair walk through several
\* intersections: a truncated triangle, a pentagon with a unit edge and a
\* nonagon with collinear vertices
WalkRaws ==
    { Raw(<<<<3, 0>>, <<21, 0>>, <<21, 4>>, <<15, 12>>, <<9, 12>>, <<3, 4>>>>),
      Raw(<<<<0, 0>>, <<11, 0>>, <<11, 13>>, <<5, 13>>, <<0, 1>>>>),
      Raw(<<<<1, 8>>, <<8, 8>>, <<8, 5>>, <<20, 0>>, <<16, 3>>, <<13, 7>>, <<13, 18>>,
            <<0, 18>>, <<0, 8>>>>) }

InitWalk == \E raw \in WalkRaws : Built(raw)

\* the offset options and the orientation of these polygons
SpecWalk == InitWalk /\ [][NextOffset]_vars

\* polygons built from short coordinate lists: none, one, two and three pairs
ShortRaws ==
    { Raw(<<>>),
      Raw(<<<<0, 0>>>>),
      Raw(<<<<0, 0>>, <<12, 0>>>>),
      Raw(<<<<0, 0>>, <<12, 4>>, <<5, 24>>>>) }

InitShort == \E raw \in ShortRaws : Built(raw)

\* the calls made on a polygon that may have fewer than three vertices
NextShort ==
    \/ \E id \in Ids : SelectPoint(id)
    \/ \E id \in Ids : \E pos \in InsertPositions : InsertPoint(id, pos)
    \/ \E id \in Ids : RemovePoint(id)
    \/ AssertCcw

SpecShort == InitShort /\ [][NextShort]_vars

\* --------------------------------------------------------------------------
\* The editor: two polygons and the events of the window, each handed to the
\* handler of the current state.  The offsets of both polygons are hidden, so
\* the update_offset that closes insert_point and move_selected_points leaves
\* offset_polygon as it is.  AddPolygonState and the polygon builder are not
\* part of it: on_add_btn is never pressed.
\* --------------------------------------------------------------------------
\* the first polygon, its selected vertices dragged with the mouse
EditorRaws == { Raw(<<<<0, 0>>, <<24, 0>>, <<24, 12>>, <<0, 12>>>>) }

\* the second polygon, out of reach of every point of the first
OtherRaws == { Raw(<<<<40, 0>>, <<52, 0>>, <<40, 12>>>>) }

\* positions of the mouse: a vertex of the first polygon, the middle of one of
\* its edges, a point past its opposite edge, a vertex of the second polygon
MousePositions == {V(0, 0), V(12, 0), V(27, 9), V(40, 0)}

InitEditor ==
    \E raw \in EditorRaws : \E other \in OtherRaws :
        BuiltAmong(raw, <<Object(set_points_from_raw(other), {}, NoHover)>>)

\* the state after a handler that gave r: the polygons it left and the state
\* it returned; drag_entry takes the positions held when DraggingState is entered
Dispatched(r, op, arg) ==
    /\ points' = r.polygons[1].points
    /\ selection' = r.polygons[1].selection
    /\ hover' = HoverOf(r.polygons[1])
    /\ others' = Tail(r.polygons)
    /\ curr_state' = r.state
    /\ drag_entry' = IF r.state.name = "Dragging" /\ curr_state.name # "Dragging"
                       THEN [k \in 1..Len(r.polygons) |->
                               [j \in 1..Len(r.polygons[k].points) |->
                                   r.polygons[k].points[j].pos]]
                       ELSE drag_entry
    /\ last' = Call(op, 0, arg, r.state.name, "none")
    /\ steps' = steps + 1
    /\ UNCHANGED <<show_offset, naive_offset, offset_size, offset_polygon>>

\* State::update with the position of the mouse, called by Application::update
update(mouse_pos) ==
    /\ steps < MaxEvents
    /\ \E polys \in {Polygons} :
          \E r \in {IF curr_state.name = "Dragging"
                      THEN Dragging_update(curr_state, polys, mouse_pos)
                    ELSE IF curr_state.name = "AddPoint"
                      THEN Handled(curr_state, [k \in 1..Len(polys) |->
                                                  AddPoint_update(polys[k], mouse_pos)])
                    ELSE Handled(curr_state, [k \in 1..Len(polys) |->
                                                update_hover(polys[k], mouse_pos)])} :
             Dispatched(r, "update", mouse_pos)

\* State::on_left_mouse_clicked: MouseButtonPressed, left button, control not held
on_left_mouse_clicked(mouse_pos) ==
    /\ steps < MaxEvents
    /\ \E polys \in {Polygons} :
          \E r \in {IF curr_state.name = "Idle"
                      THEN select_points_and_return_state(polys, 1,
                                                          DraggingState_new(mouse_pos))
                    ELSE IF curr_state.name = "Selection"
                      THEN Selection_on_left_mouse_clicked(polys, 1, mouse_pos)
                    ELSE IF curr_state.name = "AddPoint"
                      THEN AddPoint_on_left_mouse_clicked(polys, 1)
                    ELSE Handled(curr_state, polys)} :
             Dispatched(r, "on_left_mouse_clicked", mouse_pos)

\* State::on_left_mouse_released: MouseButtonReleased, left button
on_left_mouse_released(mouse_pos) ==
    /\ steps < MaxEvents
    /\ \E polys \in {Polygons} :
          \E r \in {IF curr_state.name = "Dragging"
                      THEN Dragging_on_left_mouse_released(curr_state, polys, mouse_pos)
                    ELSE Handled(curr_state, polys)} :
             Dispatched(r, "on_left_mouse_released", mouse_pos)

\* State::on_ctrl_left_mouse_clicked: MouseButtonPressed, left button, control held
on_ctrl_left_mouse_clicked ==
    /\ steps < MaxEvents
    /\ \E polys \in {Polygons} :
          \E r \in {IF curr_state.name = "Idle"
                      THEN select_points_and_return_state(polys, 1, SelectionState)
                    ELSE IF curr_state.name = "Selection"
                      THEN Selection_on_ctrl_left_mouse_clicked(polys, 1, TRUE)
                    ELSE Handled(curr_state, polys)} :
             Dispatched(r, "on_ctrl_left_mouse_clicked", "none")

\* State::on_ctrl_a_left_mouse_clicked: left button, control and A held
on_ctrl_a_left_mouse_clicked ==
    /\ steps < MaxEvents
    /\ \E polys \in {Polygons} :
          \E r \in {IF curr_state.name = "Idle"
                      THEN Idle_on_ctrl_a_left_mouse_clicked(polys, 1)
                    ELSE IF curr_state.name = "Selection"
                      THEN Selection_on_ctrl_a_left_mouse_clicked(polys)
                    ELSE Handled(curr_state, polys)} :
             Dispatched(r, "on_ctrl_a_left_mouse_clicked", "none")

\* State::on_add_point_btn
on_add_point_btn ==
    /\ steps < MaxEvents
    /\ \E polys \in {Polygons} :
          \E r \in {IF curr_state.name = "Idle" THEN Handled(AddPointState, polys)
                    ELSE IF curr_state.name = "Selection"
                      THEN Handled(AddPointState, Each_deselect_all_points(polys))
                    ELSE Handled(curr_state, polys)} :
             Dispatched(r, "on_add_point_btn", "none")

\* State::on_cancel_btn
on_cancel_btn ==
    /\ steps < MaxEvents
    /\ \E polys \in {Polygons} :
          \E r \in {IF curr_state.name = "AddPoint" THEN Handled(IdleState, polys)
                    ELSE Handled(curr_state, polys)} :
             Dispatched(r, "on_cancel_btn", "none")

NextEditor ==
    \/ \E mouse_pos \in MousePositions : update(mouse_pos)
    \/ \E mouse_pos \in MousePositions : on_left_mouse_clicked(mouse_pos)
    \/ \E mouse_pos \in MousePositions : on_left_mouse_released(mouse_pos)
    \/ on_ctrl_left_mouse_clicked
    \/ on_ctrl_a_left_mouse_clicked
    \/ on_add_point_btn
    \/ on_cancel_btn

SpecEditor == InitEditor /\ [][NextEditor]_vars

\* --------------------------------------------------------------------------
\* Properties
\* --------------------------------------------------------------------------
TagAt(pts, e) == pts[(e % Len(pts)) + 1].edge_constraint
PosAt(pts, e) == pts[(e % Len(pts)) + 1].pos
Tags(pts) == [k \in 1..Len(pts) |-> pts[k].edge_constraint]
Positions(pts) == [k \in 1..Len(pts) |-> pts[k].pos]
Half(a, b) == RDiv(RAdd(a, b), RInt(2))

\* C1: after assert_ccw returns, the shoelace sum
\* sum (x[i+1]-x[i])*(y[i+1]+y[i]) of the resulting vertex order is >= 0
\* (in exact arithmetic).
C1_SumNonNegativeAfterAssertCcw ==
    last.op = "assert_ccw" => RLe(RInt(0), ShoelaceSum(points))

\* an order of negative sum has been reversed into one of positive sum
C1_Witness ==
    /\ last.op = "assert_ccw"
    /\ last.ret = "reversed"
    /\ RLt(ShoelaceSum(last.pre.points), RInt(0))
    /\ RLt(RInt(0), ShoelaceSum(points))

\* C2: whenever update_offset takes the repair path (naive mode off, a proper
\* crossing in the naive offset) and the walk ends by returning to the start
\* vertex, is_self_crossing of the stored offset polygon is false.
C2_RepairedContourNotSelfCrossing ==
    last.path = "start" => ~is_self_crossing(offset_polygon)

SquareStored == Raw(<<<<0, 0>>, <<10, 0>>, <<10, 10>>, <<0, 10>>>>)
SquareNormalized == Raw(<<<<0, 10>>, <<10, 10>>, <<10, 0>>, <<0, 0>>>>)

\* update_offset has just run with the offset displayed at distance 2 on the
\* polygon of the given stored coordinates
OffsetTwoOf(coords) ==
    /\ last.op = "set_options"
    /\ last.ret = "changed"
    /\ show_offset
    /\ offset_size = 2
    /\ get_raw(points) = coords

\* C3: with the offset displayed at distance 2, the square stored in the order
\* assert_ccw leaves, (0,10), (10,10), (10,0), (0,0), gets the outward contour
\* (-2,12), (12,12), (12,-2), (-2,-2); stored as (0,0), (10,0), (10,10), (0,10)
\* it gets the inward contour (2,2), (8,2), (8,8), (2,8).
C3_SquareOffsetFollowsOrientation ==
    /\ OffsetTwoOf(SquareNormalized) =>
           get_raw(offset_polygon) = Raw(<<<<-2, 12>>, <<12, 12>>, <<12, -2>>, <<-2, -2>>>>)
    /\ OffsetTwoOf(SquareStored) =>
           get_raw(offset_polygon) = Raw(<<<<2, 2>>, <<8, 2>>, <<8, 8>>, <<2, 8>>>>)

\* the normalized square carries its outward contour
C3_Witness ==
    /\ OffsetTwoOf(SquareNormalized)
    /\ get_raw(offset_polygon) = Raw(<<<<-2, 12>>, <<12, 12>>, <<12, -2>>, <<-2, -2>>>>)

\* C3 as stated: the square stored as (0,0), (10,0), (10,10), (0,10) gets the
\* contour (-2,-2), (12,-2), (12,12), (-2,12)
C3_StoredSquareOffsetOutward ==
    OffsetTwoOf(SquareStored) =>
        get_raw(offset_polygon) = Raw(<<<<-2, -2>>, <<12, -2>>, <<12, 12>>, <<-2, 12>>>>)

\* every turn of the vertex sequence has the same sense
Convex(pts) ==
    \/ \A i \in 0..(Len(pts) - 1) :
          RLe(RInt(0), cross2(VSub(PosAt(pts, i + 1), PosAt(pts, i)),
                              VSub(PosAt(pts, i + 2), PosAt(pts, i + 1))))
    \/ \A i \in 0..(Len(pts) - 1) :
          RLe(cross2(VSub(PosAt(pts, i + 1), PosAt(pts, i)),
                     VSub(PosAt(pts, i + 2), PosAt(pts, i + 1))), RInt(0))

\* 0 <= d < half the length of every edge
BelowHalfMinEdge(pts, d) ==
    /\ d >= 0
    /\ \A i \in 0..(Len(pts) - 1) :
          RLt(RInt(4 * d * d), vec_len2(VSub(PosAt(pts, i + 1), PosAt(pts, i))))

\* every vertex moved by d along its miter offset vector
MovedAlongMiter(pts, d) ==
    [k \in 1..Len(pts) |-> VAdd(pts[k].pos, VScale(get_offset_vec(pts, k - 1), RInt(d)))]

\* update_offset has just run, the offset displayed, on a convex polygon and a
\* distance below half its minimum edge length
ConvexOffsetCase ==
    /\ last.op = "set_options"
    /\ last.ret = "changed"
    /\ show_offset
    /\ Convex(points)
    /\ BelowHalfMinEdge(points, offset_size)

\* the naive offset has no self-crossing and is the stored contour
NaiveOffsetStored ==
    /\ ~is_self_crossing(Polygon_create(MovedAlongMiter(points, offset_size)))
    /\ get_raw(offset_polygon) = MovedAlongMiter(points, offset_size)

\* C4: for every convex polygon stored in the order assert_ccw leaves (positive
\* shoelace sum) and every d with 0 <= d < half the minimum edge length, the
\* naive offset has no self-crossings and the contour update_offset stores has
\* the vertices of the naive offset in the same order.
C4_ConvexNormalizedOffsetIsNaive ==
    (ConvexOffsetCase /\ RLt(RInt(0), ShoelaceSum(points))) => NaiveOffsetStored

\* a normalized convex quadrilateral carries its naive offset at distance > 0
C4_Witness ==
    /\ ConvexOffsetCase
    /\ RLt(RInt(0), ShoelaceSum(points))
    /\ Len(points) = 4
    /\ offset_size > 0
    /\ ~naive_offset
    /\ NaiveOffsetStored

\* C4 as stated: for every convex polygon, whatever its stored order
C4_ConvexOffsetIsNaive == ConvexOffsetCase => NaiveOffsetStored

\* C5: remove_point on a polygon of exactly 3 vertices returns the error and
\* leaves positions, order, tags, selection and offset contour unchanged.
C5_RemoveFromTriangleRefused ==
    (last.op = "remove_point" /\ Len(last.pre.points) = 3) =>
        /\ last.ret = "Err"
        /\ points = last.pre.points
        /\ selection = last.pre.selection
        /\ offset_polygon = last.pre.offset_polygon

\* a refused removal of a selected vertex of a triangle whose offset contour
\* is displayed
C5_Witness ==
    /\ last.op = "remove_point"
    /\ Len(last.pre.points) = 3
    /\ last.ret = "Err"
    /\ last.id \in selection
    /\ Len(offset_polygon) = 3

\* C6: a polygon that starts with at least 3 vertices has at least 3 vertices
\* after any sequence of insert_point, remove_point, move_selected_points,
\* constraint changes and assert_ccw calls.
C6_AtLeastThreeVertices == Len(points) >= 3

\* a removal that went through and left exactly 3 vertices
C6_Witness ==
    /\ last.op = "remove_point"
    /\ last.ret = "Ok"
    /\ Len(last.pre.points) = 4
    /\ Len(points) = 3

\* the edge before or after the edge of the last call carried the requested tag
NeighbourCarries ==
    \/ TagAt(last.pre.points, last.id - 1) = last.arg
    \/ TagAt(last.pre.points, last.id + 1) = last.arg

\* C7: a request to set an edge to Horizontal (Vertical) while the edge before
\* or after it carries Horizontal (Vertical) changes no vertex position and
\* no edge-constraint tag.
C7_NeighbourAxisRejected ==
    (/\ last.op = "set_constraint"
     /\ last.arg \in {"Horizontal", "Vertical"}
     /\ NeighbourCarries) =>
        /\ Positions(points) = Positions(last.pre.points)
        /\ Tags(points) = Tags(last.pre.points)

\* Horizontal asked for an untagged edge that is long enough in x and whose
\* predecessor carries Horizontal
C7_Witness ==
    /\ last.op = "set_constraint"
    /\ last.arg = "Horizontal"
    /\ TagAt(last.pre.points, last.id) = "None"
    /\ TagAt(last.pre.points, last.id - 1) = "Horizontal"
    /\ RLt(RInt(POINT_DETECTION_RADIUS),
           RAbs(RSub(PosAt(last.pre.points, last.id + 1).x,
                     PosAt(last.pre.points, last.id).x)))
    /\ last.ret = "not_offered"

\* C8: when the snap of an accepted Horizontal/Vertical constraint makes the
\* polygon self-crossing, the call is rolled back: the state after the call
\* equals the state before it.
C8_SelfCrossingSnapRolledBack ==
    (last.op = "set_constraint" /\ last.ret = "rolled_back") =>
        /\ points = last.pre.points
        /\ selection = last.pre.selection
        /\ offset_polygon = last.pre.offset_polygon

\* a Horizontal snap of an edge with distinct endpoint heights was rolled back
C8_Witness ==
    /\ last.op = "set_constraint"
    /\ last.ret = "rolled_back"
    /\ last.arg = "Horizontal"
    /\ PosAt(last.pre.points, last.id).y # PosAt(last.pre.points, last.id + 1).y

\* the last call was a constraint request for the edge from p0 to p1
RequestOn(tag, p0, p1) ==
    /\ last.op = "set_constraint"
    /\ last.arg = tag
    /\ PosAt(last.pre.points, last.id) = p0
    /\ PosAt(last.pre.points, last.id + 1) = p1

\* both endpoints of the edge of the last call have the y coordinate y
BothAtY(y) ==
    /\ PosAt(points, last.id).y = y
    /\ PosAt(points, last.id + 1).y = y

\* both endpoints of the edge of the last call have the x coordinate x
BothAtX(x) ==
    /\ PosAt(points, last.id).x = x
    /\ PosAt(points, last.id + 1).x = x

\* an accepted Horizontal puts both endpoints at the average y and keeps their
\* x; an accepted Vertical puts both at the average x and keeps their y
SnapsToAverage ==
    (last.op = "set_constraint" /\ last.ret = "applied") =>
        /\ last.arg = "Horizontal" =>
              /\ BothAtY(Half(PosAt(last.pre.points, last.id).y,
                              PosAt(last.pre.points, last.id + 1).y))
              /\ PosAt(points, last.id).x = PosAt(last.pre.points, last.id).x
              /\ PosAt(points, last.id + 1).x = PosAt(last.pre.points, last.id + 1).x
        /\ last.arg = "Vertical" =>
              /\ BothAtX(Half(PosAt(last.pre.points, last.id).x,
                              PosAt(last.pre.points, last.id + 1).x))
              /\ PosAt(points, last.id).y = PosAt(last.pre.points, last.id).y
              /\ PosAt(points, last.id + 1).y = PosAt(last.pre.points, last.id + 1).y

C10_NoAdjacentSameAxis ==
    \A e \in 0..(Len(points) - 1) :
        TagAt(points, e) # "None" => TagAt(points, e + 1) # TagAt(points, e)

\* a vertex between a Horizontal edge and an untagged edge was removed while
\* the edge after that carried Horizontal
C10_Witness ==
    /\ last.op = "remove_point"
    /\ last.ret = "Ok"
    /\ TagAt(last.pre.points, last.id - 1) = "Horizontal"
    /\ TagAt(last.pre.points, last.id + 1) = "Horizontal"

\* the last call was assert_ccw and it reversed the vertex order
ReversedByAssertCcw == last.op = "assert_ccw" /\ last.ret = "reversed"

\* the edge starting at index e of the order before the call joins the points
\* that sit at indices n-2-e and n-1-e of the reversed order
SameEdgeAfterReverse(before, after, e) ==
    /\ PosAt(after, Len(before) - 2 - e + Len(before)) = PosAt(before, e + 1)
    /\ PosAt(after, Len(before) - 1 - e + Len(before)) = PosAt(before, e)

\* C11: when assert_ccw reverses the vertex order, the edge that joins the
\* same two points after the call carries the tag that edge carried before
C11_TagsStayOnEdgesWhenReversed ==
    ReversedByAssertCcw =>
        \A e \in 0..(Len(last.pre.points) - 1) :
            /\ SameEdgeAfterReverse(last.pre.points, points, e)
            /\ TagAt(points, Len(points) - 2 - e + Len(points)) = TagAt(last.pre.points, e)

\* a polygon with a Horizontal and an untagged edge was reversed
C11_Witness ==
    /\ ReversedByAssertCcw
    /\ \E e \in 0..(Len(last.pre.points) - 1) : TagAt(last.pre.points, e) = "Horizontal"
    /\ \E e \in 0..(Len(last.pre.points) - 1) : TagAt(last.pre.points, e) = "None"

\* C12: assert_ccw returns true exactly when the shoelace sum before the call
\* is <= 0, and then the positions are the exact reverse of those before;
\* otherwise it returns false and order, positions and tags are unchanged
C12_AssertCcwReversesIffSumNotPositive ==
    last.op = "assert_ccw" =>
        /\ last.ret = "reversed" <=> RLe(ShoelaceSum(last.pre.points), RInt(0))
        /\ last.ret = "reversed" => Positions(points) = Reverse(Positions(last.pre.points))
        /\ last.ret # "reversed" => points = last.pre.points

\* a polygon of shoelace sum exactly zero was reversed
C12_Witness ==
    /\ ReversedByAssertCcw
    /\ ShoelaceSum(last.pre.points) = RInt(0)
    /\ Len(points) >= 3
    /\ Positions(points) # Positions(last.pre.points)

\* C13: exporting with get_raw and importing the result with
\* set_points_from_raw yields the same number of vertices and, index for
\* index, the same positions
C13_RawRoundTripKeepsPositions ==
    last.op = "save_and_load" =>
        /\ Len(points) = Len(last.pre.points)
        /\ \A k \in 1..Len(points) : points[k].pos = last.pre.points[k].pos

\* a polygon with a selected vertex and with x # y at some vertex went through
\* the round trip, which cleared the selection flag
C13_Witness ==
    /\ last.op = "save_and_load"
    /\ Len(points) >= 3
    /\ \E k \in 1..Len(points) : last.pre.points[k].pos.x # last.pre.points[k].pos.y
    /\ \E k \in 1..Len(points) : last.pre.points[k].is_selected
    /\ points # last.pre.points

\* some visited pair of non-neighbour edges has a proper intersection
HasProperCrossing(pts) ==
    \E i \in 0..(points_count(pts) - 1) :
        \E j \in PairRange(pts, i) : ProperCrossing(pts, i, j)

\* C14: is_self_crossing returns true if and only if some pair of non-adjacent
\* edges (i, j), j >= i+2, the pair (0, n-1) excluded, has a proper
\* intersection; collinear overlap and touching at an endpoint do not count
C14_SelfCrossingIffProperIntersection ==
    is_self_crossing(points) <=> HasProperCrossing(points)

\* edges e and k of a polygon of n vertices are distinct and share no vertex
NonAdjacent(n, e, k) == e # k /\ (e + 1) % n # k /\ (k + 1) % n # e

\* the proper intersection points of edge e with the edges not adjacent to it
ProperIntersectionsOf(pts, e) ==
    {EdgeIntersection(pts, e, k).intersection :
        k \in {k2 \in 0..(Len(pts) - 1) :
                  /\ NonAdjacent(Len(pts), e, k2)
                  /\ EdgeIntersection(pts, e, k2).kind = "SinglePoint"
                  /\ EdgeIntersection(pts, e, k2).is_proper}}

\* p is a proper intersection of edge e, and none is nearer to e's start vertex
NearestProperOf(pts, e, p) ==
    /\ p \in ProperIntersectionsOf(pts, e)
    /\ \A q \in ProperIntersectionsOf(pts, e) :
          RLe(distance2(PosAt(pts, e), p), distance2(PosAt(pts, e), q))

\* the intersection the outer loop of the walk picks for the current edge e
PickedFor(pts, crossings, e) ==
    crossings[e][FirstClosest(crossings[e], get_point_pos(pts, e),
                              1..Len(crossings[e]))].point

\* the crossing map of the polygon nv has its entries on the edges with a
\* proper intersection, and the walk picks the nearest one for each
CrossingMapNearest(nv, crossings) ==
    \A e \in 0..(Len(nv) - 1) :
        /\ e \in DOMAIN crossings <=> ProperIntersectionsOf(nv, e) # {}
        /\ e \in DOMAIN crossings => NearestProperOf(nv, e, PickedFor(nv, crossings, e))

\* the walk ran from a start edge that has an entry: the second point of the
\* stored contour is the intersection picked for that edge
StartPickStored(nv, start) ==
    ProperIntersectionsOf(nv, start) # {} =>
        NearestProperOf(nv, start, offset_polygon[2].pos)

\* update_offset has just computed the crossing map of the naive offset
CrossingMapComputed ==
    last.op = "set_options" /\ last.path \in {"naive", "start", "safety", "cut", "loop"}

\* C15: the crossing map has an entry for edge e exactly when e has a proper
\* intersection with a non-adjacent edge, and the intersection the offset walk
\* uses for the current edge e is one of minimum squared distance from e's
\* start vertex among all of e's proper intersections
C15_CrossingMapAndNearestIntersection ==
    CrossingMapComputed =>
        /\ CrossingMapNearest(naive_offset_polygon(points, offset_size),
                              get_self_crossing_edges(naive_offset_polygon(points, offset_size)))
        /\ last.path = "start" =>
              StartPickStored(naive_offset_polygon(points, offset_size),
                              MinXStart(naive_offset_polygon(points, offset_size)))

\* the repair walk ran on a naive offset with an edge that has two proper
\* intersections at different distances from its start vertex
C15_Witness ==
    /\ CrossingMapComputed
    /\ last.path = "start"
    /\ \E e \in 0..(Len(points) - 1) :
          \E p, q \in ProperIntersectionsOf(naive_offset_polygon(points, offset_size), e) :
              RLt(distance2(PosAt(naive_offset_polygon(points, offset_size), e), p),
                  distance2(PosAt(naive_offset_polygon(points, offset_size), e), q))

\* update_offset has just entered its repair walk
WalkRan == last.op = "set_options" /\ last.path \in {"start", "safety", "cut", "loop"}

\* the repair walk over the naive offset nv, as update_offset runs it
WalkOf(nv) == OutsideWalk(nv, get_self_crossing_edges(nv), MinXStart(nv))

\* the walk w over nv left its outer loop by one of the two breaks after at
\* most n+1 passes, no inner chain repeats for ever and none was still
\* jumping after MaxChain jumps
WalkBounded(nv, w) ==
    /\ w.iterations <= points_count(nv) + 1
    /\ w.end \in {"start", "safety"}
    /\ ~w.cut

\* C16: update_offset terminates: the outer walk runs at most n+1 passes (n the
\* vertex count of the naive offset) and stops by its return to the start
\* vertex or by the safety bound, and every inner chain of jumps from
\* intersection to intersection ends
C16_OffsetWalkTerminates ==
    WalkRan =>
        WalkBounded(naive_offset_polygon(points, offset_size),
                    WalkOf(naive_offset_polygon(points, offset_size)))

\* update_offset has just run past its early return: the offset is displayed
\* and the base polygon is not reported self-crossing
OffsetStored ==
    /\ last.op = "set_options"
    /\ last.ret = "changed"
    /\ show_offset
    /\ ~is_self_crossing(points)

\* the naive offset of the base polygon has no entry in its crossing map
EmptyCrossingMap ==
    \A e \in 0..(Len(points) - 1) :
        ProperIntersectionsOf(naive_offset_polygon(points, offset_size), e) = {}

\* C17: when the naive flag is set, or the naive offset has an empty crossing
\* map, the contour update_offset stores has exactly n vertices and vertex i is
\* position(i) + d * offset_vec(i) of the base polygon, whatever self-crossings
\* the naive offset contains
C17_NaiveOffsetStoredAsIs ==
    (OffsetStored /\ (naive_offset \/ EmptyCrossingMap)) =>
        /\ Len(offset_polygon) = Len(points)
        /\ \A k \in 1..Len(points) :
              offset_polygon[k].pos =
                  VAdd(points[k].pos, VScale(get_offset_vec(points, k - 1), RInt(offset_size)))

\* the naive flag is set and the stored naive offset has a proper crossing
C17_Witness ==
    /\ OffsetStored
    /\ naive_offset
    /\ offset_size > 0
    /\ ~EmptyCrossingMap
    /\ HasProperCrossing(offset_polygon)
    /\ Len(offset_polygon) = Len(points)

\* the indices k of 0..n-1 with k = i + q*n for an integer q
CongruentIndices(n, i) == {k \in 0..(n - 1) : \E q \in -3..3 : i = k + q * n}

\* the index of 0..n-1 congruent to i modulo n
CyclicIndex(n, i) == CHOOSE k \in CongruentIndices(n, i) : TRUE

\* the read accessors called with the signed index i read vertex k
ReadsVertex(pts, i, k) ==
    /\ fix_index(pts, i) = k
    /\ get_point_pos(pts, i) = pts[k + 1].pos
    /\ get_edge_constraint(pts, i) = pts[k + 1].edge_constraint
    /\ is_point_selected(pts, i) = pts[k + 1].is_selected

\* the last call, made with the signed index last.id, acted on vertex k of the
\* polygon before the call
ActedOnVertex(before, k) ==
    /\ last.op = "select_point" =>
          points = [before EXCEPT ![k + 1].is_selected = TRUE]
    /\ last.op = "deselect_point" =>
          points = [before EXCEPT ![k + 1].is_selected = FALSE]
    /\ last.op = "insert_point" =>
          /\ Len(points) = Len(before) + 1
          /\ points[k + 1].pos = last.arg
          /\ \A j \in 1..Len(before) :
                points[IF j <= k THEN j ELSE j + 1].pos = before[j].pos
    /\ (last.op = "remove_point" /\ last.ret = "Ok") =>
          /\ Len(points) = Len(before) - 1
          /\ \A j \in 1..Len(points) :
                points[j].pos = before[IF j <= k THEN j ELSE j + 1].pos
    /\ (last.op = "set_constraint" /\ last.ret = "applied") =>
          /\ Len(points) = Len(before)
          /\ points[k + 1].edge_constraint = last.arg
          /\ \A j \in 1..Len(before) :
                /\ j # k + 1 => points[j].edge_constraint = before[j].edge_constraint
                /\ j \notin {k + 1, ((k + 1) % Len(before)) + 1} => points[j].pos = before[j].pos

\* the calls that take a signed vertex or edge index
IndexedOps == {"select_point", "deselect_point", "insert_point", "remove_point",
               "set_constraint"}

\* C18: for a polygon of n >= 1 vertices and a signed index i (negative, or
\* >= n), fix_index(i) is the unique k of 0..n-1 congruent to i modulo n, and
\* the position, constraint and selection accessors, insert and remove act on
\* vertex k
C18_CyclicIndexActsOnCongruentVertex ==
    /\ \A i \in Ids :
          /\ Cardinality(CongruentIndices(Len(points), i)) = 1
          /\ ReadsVertex(points, i, CyclicIndex(Len(points), i))
    /\ last.op \in IndexedOps =>
          ActedOnVertex(last.pre.points, CyclicIndex(Len(last.pre.points), last.id))

\* the vertex at index -1, the last one, was removed, after an insertion at
\* index n had put a vertex at the front
C18_Witness ==
    /\ last.op = "remove_point"
    /\ last.ret = "Ok"
    /\ last.id = -1
    /\ Positions(points) = SubSeq(Positions(last.pre.points), 1, Len(points))
    /\ last.pre.points[Len(last.pre.points)].pos # last.pre.points[1].pos
    /\ points[1].pos \in InsertPositions

\* the last call took a vertex or edge index at or past the vertex count
IndexPastCount == last.op \in IndexedOps /\ last.id >= Len(last.pre.points)

\* the caller sees of the last call what it would see of the same call made
\* with the valid index k: the same returned outcome and the same polygon
SameAsValidIndex(before, k) ==
    \/ last.op = "select_point" /\ points = Polygon_select_point(before, k)
    \/ last.op = "deselect_point" /\ points = Polygon_deselect_point(before, k)
    \/ last.op = "insert_point" /\ points = InsertedPoints(before, k, last.arg)
    \/ last.op = "remove_point" /\ last.ret = "Err" /\ points = before
    \/ last.op = "remove_point" /\ last.ret = "Ok" /\ points = RemovedPoints(before, k)
    \/ /\ last.op = "set_constraint"
       /\ draw_line_constraints_egui(before, k, last.arg) =
              [points |-> points, outcome |-> last.ret]

\* C19: reading or updating a vertex with an index >= count is signalled to
\* the caller as an outcome distinguishable from that of every valid index
C19_IndexPastCountSignalled ==
    IndexPastCount =>
        ~\E k \in 0..(Len(last.pre.points) - 1) : SameAsValidIndex(last.pre.points, k)

\* C20: no sequence of core operations panics or aborts the process, also on
\* polygons of 0, 1 or 2 vertices: assert_ccw and the cyclic index accessors
\* return normally
C20_NoCoreOperationPanics == last.ret # "panic"

\* the vector holds its first position again as its last entry
ClosingPointDuplicated(pts) == Len(pts) >= 2 /\ pts[Len(pts)].pos = pts[1].pos

\* C21: no polygon the engine holds, the base polygon or the stored offset
\* contour (the one rebuilt by the repair walk included), has a last vertex
\* that repeats the position of its first vertex.
C21_NoExplicitClosingPoint ==
    /\ ~ClosingPointDuplicated(points)
    /\ ~ClosingPointDuplicated(offset_polygon)

\* n is the unit normal of the edge from p to q as the model writes it: the
\* primitive integer vector perpendicular to q - p on its left, 0/0 when p = q
IsUnitNormalOf(n, p, q) ==
    IF p = q THEN n = Vec(<<0, 0>>, <<0, 0>>)
    ELSE /\ n.x[2] = 1 /\ n.y[2] = 1
         /\ GCD(Abs(n.x[1]), Abs(n.y[1])) = 1
         /\ dot_prod(n, VSub(q, p)) = RInt(0)
         /\ RLt(RInt(0), cross2(VSub(q, p), n))

\* the derived fields of vertex i are the ones its cyclic predecessor, itself
\* and its cyclic successor give at their current positions
DerivedFromNeighbours(pts, i) ==
    /\ IsUnitNormalOf(pts[i + 1].prev_normal, PosAt(pts, i - 1), PosAt(pts, i))
    /\ IsUnitNormalOf(pts[i + 1].normal, PosAt(pts, i), PosAt(pts, i + 1))
    /\ pts[i + 1].offset_vec = Miter(pts[i + 1].prev_normal, pts[i + 1].normal)
    /\ pts[i + 1].direction =
          Bisector(pts[i + 1].prev_normal, pts[i + 1].normal,
                   is_right_turn(PosAt(pts, i - 1), PosAt(pts, i), PosAt(pts, i + 1)))

DerivedFields(pt) ==
    [direction |-> pt.direction, normal |-> pt.normal, prev_normal |-> pt.prev_normal,
     offset_vec |-> pt.offset_vec]

\* vertex i and its two cyclic neighbours are where they were before the call
NeighbourhoodKept(before, after, i) ==
    \A k \in {i - 1, i, i + 1} : PosAt(after, k) = PosAt(before, k)

\* the calls that only write positions
PositionOnlyOps == {"move_selected_points", "set_constraint"}

FlaggedIds(pts) == {i \in 0..(Len(pts) - 1) : pts[i + 1].is_selected}
FlaggedPositions(pts) == {pts[i + 1].pos : i \in FlaggedIds(pts)}

\* C23: after PolygonObject::assert_ccw has returned, reversed or not, the
\* selection set is exactly the set of indices whose vertex has its selection
\* flag set, and the flagged vertices are at the positions where the flagged
\* vertices were before the call.
C23_SelectionFollowsVerticesThroughAssertCcw ==
    (last.op = "assert_ccw" /\ last.ret \in {"reversed", "kept"}) =>
        /\ selection = FlaggedIds(points)
        /\ FlaggedPositions(points) = FlaggedPositions(last.pre.points)

\* a reversal has moved a selected vertex to another index, and the selection
\* set, which agreed with the flags before the call, names the new index
C23_Witness ==
    /\ last.op = "assert_ccw"
    /\ last.ret = "reversed"
    /\ last.pre.selection = FlaggedIds(last.pre.points)
    /\ last.pre.selection # {}
    /\ selection # last.pre.selection
    /\ Cardinality(selection) = Cardinality(last.pre.selection)

\* the index after an insertion at index k of the vertex that had index j
AfterInsert(j, k) == IF j < k THEN j ELSE j + 1

\* the last call was insert_point and returned
InsertReturned == last.op = "insert_point" /\ last.ret # "panic"

\* after is before with a vertex at p, tag None, put at index k, between the
\* old vertices k-1 and k; the old edge k-1 has lost its tag and every old
\* vertex keeps its position, its place in the cyclic order and, the start of
\* the split edge apart, its tag
InsertedBetween(before, after, k, p) ==
    /\ Len(after) = Len(before) + 1
    /\ PosAt(after, k) = p
    /\ TagAt(after, k) = "None"
    /\ PosAt(after, k + 1) = PosAt(before, k)
    /\ PosAt(after, k + Len(before)) = PosAt(before, k + Len(before) - 1)
    /\ TagAt(after, k + Len(before)) = "None"
    /\ \A j \in 0..(Len(before) - 1) :
          /\ PosAt(after, AfterInsert(j, k)) = PosAt(before, j)
          /\ (j + 1) % Len(before) # k =>
                TagAt(after, AfterInsert(j, k)) = TagAt(before, j)

\* C24: insert_point(id, p) on a polygon of n vertices gives n+1 vertices, the
\* new one at p with tag None cyclically between the old vertices id-1 and id;
\* the tag of the split edge (old edge id-1) becomes None; every other vertex
\* keeps its position, cyclic order and tag.
C24_InsertPointSplitsOneEdge ==
    InsertReturned =>
        InsertedBetween(last.pre.points, points, last.id % Len(last.pre.points), last.arg)

\* a tagged edge has been split, and no edge carries a tag after the call
C24_Witness ==
    /\ InsertReturned
    /\ TagAt(last.pre.points, last.id - 1) # "None"
    /\ \A j \in 0..(Len(points) - 1) : TagAt(points, j) = "None"
    /\ Len(points) = Len(last.pre.points) + 1

\* the index before a removal at index k of the vertex that has index j after it
BeforeRemove(j, k) == IF j < k THEN j ELSE j + 1

\* after is before without its vertex k; the old edge k-1, which now runs to
\* the old vertex k+1, has lost its tag, and every other vertex keeps its
\* position, its place in the cyclic order and its tag
RemovedAt(before, after, k) ==
    /\ Len(after) = Len(before) - 1
    /\ \A j \in 0..(Len(after) - 1) :
          /\ PosAt(after, j) = PosAt(before, BeforeRemove(j, k))
          /\ TagAt(after, j) =
                IF (BeforeRemove(j, k) + 1) % Len(before) = k
                  THEN "None" ELSE TagAt(before, BeforeRemove(j, k))

\* C25: remove_point(id) on a polygon of more than 3 vertices returns Ok,
\* removes exactly the vertex at fix_index(id), sets the tag of the merged edge
\* (old edge id-1) to None, and leaves the position, cyclic order and tag of
\* every other vertex unchanged.
C25_RemovePointMergesTwoEdges ==
    (last.op = "remove_point" /\ Len(last.pre.points) > 3) =>
        /\ last.ret = "Ok"
        /\ RemovedAt(last.pre.points, points, last.id % Len(last.pre.points))

\* a vertex between a tagged edge and another edge has been removed, and an
\* edge away from it still carries its tag
C25_Witness ==
    /\ last.op = "remove_point"
    /\ last.ret = "Ok"
    /\ TagAt(last.pre.points, last.id - 1) # "None"
    /\ TagAt(points, (last.id % Len(last.pre.points)) - 1 + Len(points)) = "None"
    /\ \E j \in 0..(Len(points) - 1) : TagAt(points, j) # "None"

\* C27: in every reachable state, after any sequence of select_point,
\* deselect_point, select_all_points, deselect_all_points, insert_point,
\* remove_point and assert_ccw, the selection set is exactly the set of indices
\* i < count whose vertex has is_selected = true.
C27_SelectionSetMatchesFlags == selection = FlaggedIds(points)

\* the two endpoints of the edge e agree in the coordinate its tag constrains
TagSatisfied(pts, e) ==
    /\ TagAt(pts, e) = "Horizontal" => PosAt(pts, e).y = PosAt(pts, e + 1).y
    /\ TagAt(pts, e) = "Vertical" => PosAt(pts, e).x = PosAt(pts, e + 1).x

RanUpdateOffset ==
    \/ last.op = "set_options" /\ last.ret = "changed"
    \/ last.op = "remove_point" /\ last.ret = "Ok"

\* C30: update_offset leaves the stored offset contour exactly as it was
\* whenever the offset display is off or the base polygon is_self_crossing();
\* and it never changes the positions, tags or selection of the base polygon:
\* after the options panel, which only runs update_offset, they are what they
\* were, and after a removal they are what the removal alone leaves.
C30_UpdateOffsetSkipsAndKeepsBase ==
    RanUpdateOffset =>
        /\ (~show_offset \/ is_self_crossing(points)) =>
              offset_polygon = last.pre.offset_polygon
        /\ last.op = "set_options" =>
              /\ points = last.pre.points
              /\ selection = last.pre.selection
        /\ last.op = "remove_point" =>
              RemovedAt(last.pre.points, points, last.id % Len(last.pre.points))

\* a removal has left the polygon self-crossing while its offset is displayed:
\* the contour computed for the polygon before the removal is still stored
C30_Witness ==
    /\ last.op = "remove_point"
    /\ last.ret = "Ok"
    /\ show_offset
    /\ HasProperCrossing(points)
    /\ last.path = "skipped"
    /\ Len(offset_polygon) >= 3
    /\ offset_polygon = last.pre.offset_polygon

\* the polygons before the last call
PrePolygons == <<Object(last.pre.points, last.pre.selection, NoHover)>> \o last.pre.others

\* the last event was a release of the left button handled by DraggingState
ReleasedInDragging ==
    last.op = "on_left_mouse_released" /\ last.pre.curr_state.name = "Dragging"

\* C26: when the left mouse button is released in DraggingState and a polygon
\* is self-crossing at that moment, every vertex of that polygon is, after the
\* release, at the position it had when DraggingState was entered, whatever
\* positions update() saw during the drag and wherever the button is released.
C26_RevertRestoresDragEntry ==
    ReleasedInDragging =>
        \A k \in 1..Len(Polygons) :
            is_self_crossing(PrePolygons[k].points) =>
                [j \in 1..Len(Polygons[k].points) |-> Polygons[k].points[j].pos] = drag_entry[k]

\* C29: whenever the current state is IdleState, selected_points_count() of
\* every polygon is 0, after every sequence of mouse and button events.
C29_IdleMeansNothingSelected ==
    curr_state.name = "Idle" =>
        \A k \in 1..Len(Polygons) : selected_points_count(Polygons[k]) = 0

====
